---- MODULE Spec2Model ----
(***************************************************************************)
(* Fixed-capacity hash tables of IlariaPilo/hashtable: Chained, Probing,   *)
(* RobinhoodProbing and Cuckoo (include/chained.hpp, include/probing.hpp,  *)
(* include/cuckoo.hpp).  One table is built per behaviour; the engine and  *)
(* its template / constructor parameters are chosen in Init and never      *)
(* change.  insert is modelled at the granularity of its lock operations;  *)
(* lookup and lookup_range do not write and are operators over the state.  *)
(***************************************************************************)
EXTENDS Integers, Sequences, FiniteSets

\* ---------------------------------------------------------------- bounds
\* Largest key the builds are handed; the key type is 0..MaxKey+2.
MaxKey == 2
\* Largest capacity handed to a constructor.
MaxCapacity == 3
\* Largest BucketSize template argument.
MaxBucketSize == 2
\* Number of threads that may call insert.
NThreads == 2
\* The small MaxProbingSteps template argument tables are also built with.
SmallMaxProbingSteps == 1
\* MaxKickCycleLength of the Cuckoo tables built here (50000 in cuckoo.hpp).
MaxKickCycleLength == 2

\* size_t MaxProbingSteps = 500
DefaultMaxProbingSteps == 500

\* Key Sentinel = std::numeric_limits<Key>::max()
Sentinel == MaxKey + 2
Key == 0..Sentinel
\* The keys the builds are handed, and all keys that may be stored: one more.
Keys == 0..MaxKey
AllKeys == 0..(Sentinel - 1)
\* Payloads are copied and never inspected by the tables: two values tell the
\* right payload from a wrong one.
Payload == {0, 1}
Threads == 1..NThreads
\* The thread of the single-threaded specifications.
MainThread == CHOOSE t \in Threads : \A u \in Threads : t <= u

\* std::optional<Payload>
nullopt == << >>
make_optional(p) == <<p>>

Min(S) == CHOOSE x \in S : \A y \in S : x <= y

VARIABLES
    engine,        \* "chained" | "probing" | "robinhood" | "cuckoo"
    capacity,      \* constructor argument
    BucketSize,    \* template argument
    HashFn,        \* which hash / reducer pair the table was built with
    ProbingFn,     \* "linear" | "quadratic"
    MaxProbingSteps, \* template argument of Probing
    KickingFn,     \* "balanced" | "biased"
    Bias,          \* BiasedKicking<Bias>
    slots,         \* Chained: std::vector<FirstLevelSlot>
    buckets,       \* Probing / RobinhoodProbing / Cuckoo: std::vector<Bucket>
    locks,         \* per directory entry: 0 (free) or the thread holding it
    has_failed,    \* Cuckoo: std::atomic<bool>
    pc,            \* per thread: where it is inside insert
    locals,        \* per thread: the local variables of insert
    ret,           \* per thread: how its last insert ended
    inserted,      \* history: key -> payload of the first insert call made with it
    repeated,      \* history: some insert call repeated a key
    threw,         \* history: some insert call raised
    moved,         \* history: some insert took a stored entry out of its slot
    arg            \* history, per thread: the key of its last insert call, if any

config == <<engine, capacity, BucketSize, HashFn, ProbingFn, MaxProbingSteps,
           KickingFn, Bias>>
history == <<inserted, repeated, threw>>
vars == <<config, slots, buckets, locks, has_failed, pc, locals, ret, history, moved, arg>>

\* ------------------------------------------------------------ directory
\* directory_address_count(capacity)
ChainedDirectoryAddressCount(c) == c

ProbingDirectoryAddressCount(c) == (c + BucketSize - 1) \div BucketSize

CuckooDirectoryAddressCount(c) == (c + BucketSize - 1) \div BucketSize

D ==
    CASE engine = "chained" -> ChainedDirectoryAddressCount(capacity)
      [] engine = "cuckoo" -> CuckooDirectoryAddressCount(capacity)
      [] OTHER -> ProbingDirectoryAddressCount(capacity)

\* ------------------------------------------------- hash and reducer
\* The hash function and the reducer are collaborators of the tables.
\* "modulo": identity hash reduced by FastModulo (h mod D).
\* "monotone": an order-preserving hash onto [0, D) with the DoNothing reducer.
\* "constant": the hash that sends every key to 0.
hashfn(k) ==
    CASE HashFn = "monotone" -> (k * D) \div Sentinel
      [] HashFn = "constant" -> 0
      [] OTHER -> k

reductionfn(h) ==
    IF HashFn = "monotone" THEN h ELSE h % D

Monotone == \A a, b \in Keys : a <= b => reductionfn(hashfn(a)) <= reductionfn(hashfn(b))

\* ---------------------------------------------------------------- slots
\* struct Slot { Key key = Sentinel; Payload payload; }, value-initialised
EmptySlot == [key |-> Sentinel, payload |-> 0]

\* new Bucket()
NewBucket == [i \in 0..(BucketSize - 1) |-> EmptySlot]

\* struct FirstLevelSlot { key = Sentinel; payload; Bucket* buckets = nullptr; }
\* The chain buckets->next->... is the sequence of its buckets.
EmptyFirstLevelSlot == [key |-> Sentinel, payload |-> 0, buckets |-> << >>]

InitLocals ==
    [key |-> 0, payload |-> 0, orig_key |-> 0, orig_slot_index |-> 0,
     slot_index |-> 0, probing_step |-> 0, kick_count |-> 0, i1 |-> 0, i2 |-> 0]

\* No insert call has been made yet.
InitCalls ==
    /\ has_failed = FALSE
    /\ pc = [t \in Threads |-> "idle"]
    /\ locals = [t \in Threads |-> InitLocals]
    /\ ret = [t \in Threads |-> "none"]
    /\ inserted = [k \in Key |-> nullopt]
    /\ repeated = FALSE
    /\ threw = FALSE
    /\ moved = FALSE
    /\ arg = [t \in Threads |-> nullopt]

\* What every constructor leaves behind, whatever the engine.
InitCommon ==
    /\ capacity \in 1..MaxCapacity
    /\ BucketSize \in 1..MaxBucketSize
    /\ InitCalls

\* The history of insert calls.
NoteInsert(k, p) ==
    /\ inserted' = IF inserted[k] = nullopt THEN [inserted EXCEPT ![k] = make_optional(p)]
                   ELSE inserted
    /\ repeated' = (repeated \/ inserted[k] # nullopt)

\* ============================================================== Chained
InitChained ==
    /\ engine = "chained"
    /\ InitCommon
    /\ HashFn \in {"modulo", "monotone"}
    /\ ProbingFn = "linear"
    /\ MaxProbingSteps = DefaultMaxProbingSteps
    /\ KickingFn = "balanced"
    /\ Bias = 0
    /\ slots = [i \in 0..(ChainedDirectoryAddressCount(capacity) - 1) |-> EmptyFirstLevelSlot]
    /\ buckets = << >>
    /\ locks = [i \in 0..(ChainedDirectoryAddressCount(capacity) - 1) |-> 0]

\* The first index of the bucket that holds Sentinel or key, BucketSize if none:
\* where the for loop over a bucket's slots stops.
FirstEmptyOrKey(bucket, key) ==
    LET hits == {i \in 0..(BucketSize - 1) :
                    bucket[i].key = Sentinel \/ bucket[i].key = key}
    IN  IF hits = {} THEN BucketSize ELSE Min(hits)

\* ChainedInsertWalk with the bug of appending a new bucket without looking for
\* room in the buckets of the chain.
ChainedInsertWalkAlwaysAppends(chain, b, key, payload) ==
    [chain |-> Append(chain, [NewBucket EXCEPT ![0] = [key |-> key, payload |-> payload]]),
     ret |-> "true"]

\* The for (;;) loop of insert over the chain, from its bucket number b on.
RECURSIVE ChainedInsertWalk(_, _, _, _)
ChainedInsertWalk(chain, b, key, payload) ==
    LET i == FirstEmptyOrKey(chain[b], key)
    IN  IF i < BucketSize
        THEN IF chain[b][i].key = Sentinel
             THEN [chain |-> [chain EXCEPT ![b][i] = [key |-> key, payload |-> payload]],
                   ret |-> "true"]
             ELSE [chain |-> chain, ret |-> "false"]
        ELSE IF b = Len(chain)
             THEN [chain |-> Append(chain,
                                [NewBucket EXCEPT ![0] = [key |-> key, payload |-> payload]]),
                   ret |-> "true"]
             ELSE ChainedInsertWalk(chain, b + 1, key, payload)

\* ChainedInsertSlot with the bug of always writing the inline slot.
ChainedInsertSlotAlwaysInline(slot, key, payload) ==
    [slot |-> [slot EXCEPT !.key = key, !.payload = payload], ret |-> "true"]

\* The critical section of insert on one first-level slot.
ChainedInsertSlot(slot, key, payload) ==
    IF slot.key = Sentinel
    THEN [slot |-> [slot EXCEPT !.key = key, !.payload = payload], ret |-> "true"]
    ELSE IF slot.buckets = << >>
    THEN [slot |-> [slot EXCEPT !.buckets =
                       <<[NewBucket EXCEPT ![0] = [key |-> key, payload |-> payload]]>>],
          ret |-> "true"]
    ELSE LET w == ChainedInsertWalk(slot.buckets, 1, key, payload)
         IN  [slot |-> [slot EXCEPT !.buckets = w.chain], ret |-> w.ret]

\* insert(key, payload) up to and including omp_set_lock(&(locks[idx])): the
\* sentinel test (asserts disabled), the index and the lock, which the thread
\* waits for.
ChainedInsertBegin(t, k, p) ==
    /\ engine = "chained"
    /\ pc[t] = "idle"
    /\ IF k = Sentinel
       THEN /\ ret' = [ret EXCEPT ![t] = "false"]
            /\ UNCHANGED <<pc, locals, locks, history>>
       ELSE LET idx == reductionfn(hashfn(k))
            IN  /\ locks[idx] = 0
                /\ locks' = [locks EXCEPT ![idx] = t]
                /\ pc' = [pc EXCEPT ![t] = "cs"]
                /\ locals' = [locals EXCEPT ![t] =
                                [InitLocals EXCEPT !.key = k, !.payload = p,
                                                   !.slot_index = idx]]
                /\ ret' = [ret EXCEPT ![t] = "none"]
                /\ NoteInsert(k, p)
                /\ UNCHANGED threw
    /\ arg' = [arg EXCEPT ![t] = make_optional(k)]
    /\ UNCHANGED <<config, slots, buckets, has_failed, moved>>

\* The critical section, omp_unset_lock and the return.
ChainedInsertBody(t) ==
    /\ engine = "chained"
    /\ pc[t] = "cs"
    /\ LET idx == locals[t].slot_index
           r == ChainedInsertSlot(slots[idx], locals[t].key, locals[t].payload)
       IN  /\ slots' = [slots EXCEPT ![idx] = r.slot]
           /\ ret' = [ret EXCEPT ![t] = r.ret]
           /\ locks' = [locks EXCEPT ![idx] = 0]
    /\ pc' = [pc EXCEPT ![t] = "idle"]
    /\ locals' = [locals EXCEPT ![t] = InitLocals]
    /\ UNCHANGED <<config, buckets, has_failed, history, moved, arg>>

\* ChainedLookupWalk with the bug of never following bucket->next.
ChainedLookupWalkFirstBucketOnly(chain, b, key) ==
    IF b > Len(chain) THEN nullopt
    ELSE LET i == FirstEmptyOrKey(chain[b], key)
         IN  IF i < BucketSize /\ chain[b][i].key = key
             THEN make_optional(chain[b][i].payload)
             ELSE nullopt

\* The while loop of lookup over the chain, from its bucket number b on.
RECURSIVE ChainedLookupWalk(_, _, _)
ChainedLookupWalk(chain, b, key) ==
    IF b > Len(chain) THEN nullopt
    ELSE LET i == FirstEmptyOrKey(chain[b], key)
         IN  IF i < BucketSize
             THEN IF chain[b][i].key = key
                  THEN make_optional(chain[b][i].payload)
                  ELSE nullopt
             ELSE ChainedLookupWalk(chain, b + 1, key)

ChainedLookup(key) ==
    IF key = Sentinel THEN nullopt
    ELSE LET slot == slots[reductionfn(hashfn(key))]
         IN  IF slot.key = key THEN make_optional(slot.payload)
             ELSE ChainedLookupWalk(slot.buckets, 1, key)

\* ChainedRangeBucket with the bug of testing chain keys against max only.
RECURSIVE ChainedRangeBucketNoLowerBound(_, _, _, _, _)
ChainedRangeBucketNoLowerBound(bucket, j, min, max, acc) ==
    IF j >= BucketSize THEN acc
    ELSE LET k == bucket[j].key
             acc1 == [result |-> IF k <= max
                                 THEN Append(acc.result, bucket[j].payload)
                                 ELSE acc.result,
                      cont |-> acc.cont /\ ~(k >= max /\ k # Sentinel)]
         IN  IF k = Sentinel THEN acc1
             ELSE ChainedRangeBucketNoLowerBound(bucket, j + 1, min, max, acc1)

\* The for loop of lookup_range over one chain bucket, from its slot j on.
\* acc = [result, continue_until_next_slot].
RECURSIVE ChainedRangeBucket(_, _, _, _, _)
ChainedRangeBucket(bucket, j, min, max, acc) ==
    IF j >= BucketSize THEN acc
    ELSE LET k == bucket[j].key
             acc1 == [result |-> IF k >= min /\ k <= max
                                 THEN Append(acc.result, bucket[j].payload)
                                 ELSE acc.result,
                      cont |-> acc.cont /\ ~(k >= max /\ k # Sentinel)]
         IN  IF k = Sentinel THEN acc1
             ELSE ChainedRangeBucket(bucket, j + 1, min, max, acc1)

\* The while (bucket != nullptr) loop of lookup_range, from bucket number b on.
RECURSIVE ChainedRangeChain(_, _, _, _, _)
ChainedRangeChain(chain, b, min, max, acc) ==
    IF b > Len(chain) THEN acc
    ELSE ChainedRangeChain(chain, b + 1, min, max,
                           ChainedRangeBucket(chain[b], 0, min, max, acc))

\* The outer for loop of lookup_range, from directory index i on.
RECURSIVE ChainedRangeSlots(_, _, _, _)
ChainedRangeSlots(i, min, max, acc) ==
    IF ~(i < D /\ acc.cont) THEN acc.result
    ELSE LET current_slot == slots[i]
             acc1 == [result |-> IF current_slot.key >= min /\ current_slot.key <= max
                                 THEN Append(acc.result, current_slot.payload)
                                 ELSE acc.result,
                      cont |-> acc.cont /\ ~(current_slot.key >= max
                                             /\ current_slot.key # Sentinel)]
         IN  ChainedRangeSlots(i + 1, min, max,
                               ChainedRangeChain(current_slot.buckets, 1, min, max, acc1))

ChainedLookupRange(min, max) ==
    IF min = Sentinel \/ max = Sentinel THEN << >>
    ELSE ChainedRangeSlots(reductionfn(hashfn(min)), min, max,
                           [result |-> << >>, cont |-> TRUE])

NextChained ==
    \/ \E k \in Keys \cup {Sentinel}, p \in Payload : ChainedInsertBegin(MainThread, k, p)
    \/ ChainedInsertBody(MainThread)

SpecChained == InitChained /\ [][NextChained]_vars

\* ===================================================== probing functions
\* LinearProbingFunc::operator(): index + probing_step, brought below
\* directory_size by repeated subtraction.
RECURSIVE LinearWrap(_)
LinearWrap(next) == IF next >= D THEN LinearWrap(next - D) ELSE next

\* LinearProbingFunc with the bug of stepping two buckets at a time.
LinearProbingFuncStrideTwo(index, probing_step) == LinearWrap(index + 2 * probing_step)

LinearProbingFunc(index, probing_step) == LinearWrap(index + probing_step)

\* QuadraticProbingFunc::operator(): the remainder of index + probing_step^2
\* by directory_size, through the quotient.
QuadraticProbingFunc(index, probing_step) ==
    LET next_ind == index + probing_step * probing_step
        div == next_ind \div D
    IN  next_ind - div * D

probingfn(index, probing_step) ==
    IF ProbingFn = "linear" THEN LinearProbingFunc(index, probing_step)
    ELSE QuadraticProbingFunc(index, probing_step)

\* ============================================================== Probing
InitProbing ==
    /\ engine = "probing"
    /\ InitCommon
    /\ HashFn \in {"modulo", "monotone"}
    /\ ProbingFn \in {"linear", "quadratic"}
    /\ MaxProbingSteps \in {SmallMaxProbingSteps, DefaultMaxProbingSteps}
    /\ KickingFn = "balanced"
    /\ Bias = 0
    /\ slots = << >>
    /\ buckets = [i \in 0..(ProbingDirectoryAddressCount(capacity) - 1) |-> NewBucket]
    /\ locks = [i \in 0..(ProbingDirectoryAddressCount(capacity) - 1) |-> 0]

\* ProbingInsertBucket with the bug of never comparing a slot's key with key.
ProbingInsertBucketNoKeyTest(bucket, key, payload) ==
    LET i == FirstEmptyOrKey(bucket, Sentinel)
    IN  IF i >= BucketSize THEN [bucket |-> bucket, ret |-> "full"]
        ELSE [bucket |-> [bucket EXCEPT ![i] = [key |-> key, payload |-> payload]],
              ret |-> "true"]

\* The for loop of Probing::insert over the slots of one bucket:
\* "true" (stored), "false" (key found) or "full".
ProbingInsertBucket(bucket, key, payload) ==
    LET i == FirstEmptyOrKey(bucket, key)
    IN  IF i >= BucketSize THEN [bucket |-> bucket, ret |-> "full"]
        ELSE IF bucket[i].key = Sentinel
        THEN [bucket |-> [bucket EXCEPT ![i] = [key |-> key, payload |-> payload]],
              ret |-> "true"]
        ELSE [bucket |-> bucket, ret |-> "false"]

\* ProbingInsertBegin with the bug of not testing key against Sentinel.
ProbingInsertBeginNoSentinelTest(t, k, p) ==
    /\ engine = "probing"
    /\ pc[t] = "idle"
    /\ LET orig_slot_index == reductionfn(hashfn(k))
       IN  /\ locks[orig_slot_index] = 0
           /\ locks' = [locks EXCEPT ![orig_slot_index] = t]
           /\ locals' = [locals EXCEPT ![t] =
                           [InitLocals EXCEPT !.key = k, !.payload = p,
                                              !.orig_slot_index = orig_slot_index,
                                              !.slot_index = orig_slot_index,
                                              !.probing_step = 0]]
    /\ pc' = [pc EXCEPT ![t] = "scan"]
    /\ ret' = [ret EXCEPT ![t] = "none"]
    /\ NoteInsert(k, p)
    /\ arg' = [arg EXCEPT ![t] = make_optional(k)]
    /\ UNCHANGED <<config, slots, buckets, has_failed, threw, moved>>

\* Probing::insert up to and including the first omp_set_lock: the sentinel
\* test (asserts disabled), the home index, and the lock of the home bucket,
\* which the thread waits for; probing_step = 0 never exceeds MaxProbingSteps.
ProbingInsertBegin(t, k, p) ==
    /\ engine = "probing"
    /\ pc[t] = "idle"
    /\ IF k = Sentinel
       THEN /\ ret' = [ret EXCEPT ![t] = "false"]
            /\ UNCHANGED <<pc, locals, locks, history>>
       ELSE LET orig_slot_index == reductionfn(hashfn(k))
            IN  /\ locks[orig_slot_index] = 0
                /\ locks' = [locks EXCEPT ![orig_slot_index] = t]
                /\ pc' = [pc EXCEPT ![t] = "scan"]
                /\ locals' = [locals EXCEPT ![t] =
                                [InitLocals EXCEPT !.key = k, !.payload = p,
                                                   !.orig_slot_index = orig_slot_index,
                                                   !.slot_index = orig_slot_index,
                                                   !.probing_step = 0]]
                /\ ret' = [ret EXCEPT ![t] = "none"]
                /\ NoteInsert(k, p)
                /\ UNCHANGED threw
    /\ arg' = [arg EXCEPT ![t] = make_optional(k)]
    /\ UNCHANGED <<config, slots, buckets, has_failed, moved>>

\* A thread's insert call ends by raising error e.
Throw(t, e) ==
    /\ pc' = [pc EXCEPT ![t] = "idle"]
    /\ ret' = [ret EXCEPT ![t] = e]
    /\ locals' = [locals EXCEPT ![t] = InitLocals]
    /\ threw' = TRUE
    /\ UNCHANGED <<inserted, repeated>>

\* A thread's insert call ends by returning r.
Return(t, r) ==
    /\ pc' = [pc EXCEPT ![t] = "idle"]
    /\ ret' = [ret EXCEPT ![t] = r]
    /\ locals' = [locals EXCEPT ![t] = InitLocals]
    /\ UNCHANGED history

\* The head of a later round of the for (;;) loop: the MaxProbingSteps test,
\* then omp_set_lock(&(locks[slot_index])).
ProbingLock(t) ==
    /\ engine = "probing"
    /\ pc[t] = "probe"
    /\ IF locals[t].probing_step > MaxProbingSteps
       THEN /\ Throw(t, "max_probing_steps")
            /\ UNCHANGED locks
       ELSE /\ locks[locals[t].slot_index] = 0
            /\ locks' = [locks EXCEPT ![locals[t].slot_index] = t]
            /\ pc' = [pc EXCEPT ![t] = "scan"]
            /\ UNCHANGED <<locals, ret, history>>
    /\ UNCHANGED <<config, slots, buckets, has_failed, moved, arg>>

\* ProbingScan with the bug of testing the next probe index against 0 and not
\* against orig_slot_index.
ProbingScanCycleAtZero(t) ==
    /\ engine = "probing"
    /\ pc[t] = "scan"
    /\ LET l == locals[t]
           r == ProbingInsertBucket(buckets[l.slot_index], l.key, l.payload)
           next == probingfn(l.orig_slot_index, l.probing_step + 1)
       IN  /\ buckets' = [buckets EXCEPT ![l.slot_index] = r.bucket]
           /\ locks' = [locks EXCEPT ![l.slot_index] = 0]
           /\ IF r.ret # "full" THEN Return(t, r.ret)
              ELSE IF next = 0 THEN Throw(t, "cycle")
              ELSE /\ locals' = [locals EXCEPT ![t].slot_index = next,
                                               ![t].probing_step = l.probing_step + 1]
                   /\ pc' = [pc EXCEPT ![t] = "probe"]
                   /\ UNCHANGED <<ret, history>>
    /\ UNCHANGED <<config, slots, has_failed, moved, arg>>

\* ProbingScan with the bug of advancing probing_step by two after a full bucket.
ProbingScanSkipsStep(t) ==
    /\ engine = "probing"
    /\ pc[t] = "scan"
    /\ LET l == locals[t]
           r == ProbingInsertBucket(buckets[l.slot_index], l.key, l.payload)
           next == probingfn(l.orig_slot_index, l.probing_step + 2)
       IN  /\ buckets' = [buckets EXCEPT ![l.slot_index] = r.bucket]
           /\ locks' = [locks EXCEPT ![l.slot_index] = 0]
           /\ IF r.ret # "full" THEN Return(t, r.ret)
              ELSE IF next = l.orig_slot_index THEN Throw(t, "cycle")
              ELSE /\ locals' = [locals EXCEPT ![t].slot_index = next,
                                               ![t].probing_step = l.probing_step + 2]
                   /\ pc' = [pc EXCEPT ![t] = "probe"]
                   /\ UNCHANGED <<ret, history>>
    /\ UNCHANGED <<config, slots, has_failed, moved, arg>>

\* The scan of the locked bucket, omp_unset_lock, and either the return or
\* the next probe index with its cycle test.
ProbingScan(t) ==
    /\ engine = "probing"
    /\ pc[t] = "scan"
    /\ LET l == locals[t]
           r == ProbingInsertBucket(buckets[l.slot_index], l.key, l.payload)
           next == probingfn(l.orig_slot_index, l.probing_step + 1)
       IN  /\ buckets' = [buckets EXCEPT ![l.slot_index] = r.bucket]
           /\ locks' = [locks EXCEPT ![l.slot_index] = 0]
           /\ IF r.ret # "full" THEN Return(t, r.ret)
              ELSE IF next = l.orig_slot_index THEN Throw(t, "cycle")
              ELSE /\ locals' = [locals EXCEPT ![t].slot_index = next,
                                               ![t].probing_step = l.probing_step + 1]
                   /\ pc' = [pc EXCEPT ![t] = "probe"]
                   /\ UNCHANGED <<ret, history>>
    /\ UNCHANGED <<config, slots, has_failed, moved, arg>>

\* The for (;;) loop of lookup (the same text in Probing and RobinhoodProbing),
\* from the bucket at slot_index, reached at probing_step, on.
RECURSIVE ProbeLookupWalk(_, _, _, _)
ProbeLookupWalk(orig_slot_index, slot_index, probing_step, key) ==
    LET bucket == buckets[slot_index]
        i == FirstEmptyOrKey(bucket, key)
        next == probingfn(orig_slot_index, probing_step + 1)
    IN  IF i < BucketSize
        THEN IF bucket[i].key = key THEN make_optional(bucket[i].payload) ELSE nullopt
        ELSE IF next = orig_slot_index THEN nullopt
        ELSE ProbeLookupWalk(orig_slot_index, next, probing_step + 1, key)

ProbingLookup(key) ==
    IF key = Sentinel THEN nullopt
    ELSE ProbeLookupWalk(reductionfn(hashfn(key)), reductionfn(hashfn(key)), 0, key)

NextProbing ==
    \/ \E k \in Keys \cup {Sentinel}, p \in Payload : ProbingInsertBegin(MainThread, k, p)
    \/ ProbingLock(MainThread)
    \/ ProbingScan(MainThread)

SpecProbing == InitProbing /\ [][NextProbing]_vars

\* ===================================================== RobinhoodProbing
\* struct Slot { Key key = Sentinel; Payload payload; size_t psl = 0; }
EmptyRobinhoodSlot == [key |-> Sentinel, payload |-> 0, psl |-> 0]

NewRobinhoodBucket == [i \in 0..(BucketSize - 1) |-> EmptyRobinhoodSlot]

InitRobinhood ==
    /\ engine = "robinhood"
    /\ InitCommon
    /\ HashFn \in {"modulo", "monotone"}
    /\ ProbingFn \in {"linear", "quadratic"}
    /\ MaxProbingSteps = DefaultMaxProbingSteps
    /\ KickingFn = "balanced"
    /\ Bias = 0
    /\ slots = << >>
    /\ buckets = [i \in 0..(ProbingDirectoryAddressCount(capacity) - 1) |-> NewRobinhoodBucket]
    /\ locks = [i \in 0..(ProbingDirectoryAddressCount(capacity) - 1) |-> 0]

\* RobinhoodInsertBucket with the bug of never comparing a slot's key with key.
RECURSIVE RobinhoodInsertBucketNoKeyTest(_, _, _)
RobinhoodInsertBucketNoKeyTest(bucket, i, l) ==
    IF i >= BucketSize THEN [bucket |-> bucket, locals |-> l, ret |-> "full"]
    ELSE IF bucket[i].key = Sentinel
    THEN [bucket |-> [bucket EXCEPT ![i] = [key |-> l.key, payload |-> l.payload,
                                            psl |-> l.probing_step]],
          locals |-> l, ret |-> "true"]
    ELSE IF bucket[i].psl < l.probing_step
    THEN LET rich_slot == bucket[i]
         IN  IF l.orig_key = rich_slot.key
             THEN [bucket |-> bucket, locals |-> l, ret |-> "loop"]
             ELSE RobinhoodInsertBucketNoKeyTest(
                      [bucket EXCEPT ![i] = [key |-> l.key, payload |-> l.payload,
                                             psl |-> l.probing_step]],
                      i + 1,
                      [l EXCEPT !.key = rich_slot.key,
                                !.payload = rich_slot.payload,
                                !.probing_step = rich_slot.psl,
                                !.orig_slot_index = reductionfn(hashfn(rich_slot.key))])
    ELSE RobinhoodInsertBucketNoKeyTest(bucket, i + 1, l)

\* RobinhoodInsertBucket with the bug of writing over a richer entry without
\* carrying it on.
RECURSIVE RobinhoodInsertBucketDropsRich(_, _, _)
RobinhoodInsertBucketDropsRich(bucket, i, l) ==
    IF i >= BucketSize THEN [bucket |-> bucket, locals |-> l, ret |-> "full"]
    ELSE IF bucket[i].key = Sentinel \/ (bucket[i].key # l.key /\ bucket[i].psl < l.probing_step)
    THEN [bucket |-> [bucket EXCEPT ![i] = [key |-> l.key, payload |-> l.payload,
                                            psl |-> l.probing_step]],
          locals |-> l, ret |-> "true"]
    ELSE IF bucket[i].key = l.key
    THEN [bucket |-> bucket, locals |-> l, ret |-> "false"]
    ELSE RobinhoodInsertBucketDropsRich(bucket, i + 1, l)

\* RobinhoodInsertBucket with the bug of never displacing a richer entry.
RECURSIVE RobinhoodInsertBucketNeverDisplaces(_, _, _)
RobinhoodInsertBucketNeverDisplaces(bucket, i, l) ==
    IF i >= BucketSize THEN [bucket |-> bucket, locals |-> l, ret |-> "full"]
    ELSE IF bucket[i].key = Sentinel
    THEN [bucket |-> [bucket EXCEPT ![i] = [key |-> l.key, payload |-> l.payload,
                                            psl |-> l.probing_step]],
          locals |-> l, ret |-> "true"]
    ELSE IF bucket[i].key = l.key
    THEN [bucket |-> bucket, locals |-> l, ret |-> "false"]
    ELSE RobinhoodInsertBucketNeverDisplaces(bucket, i + 1, l)

\* RobinhoodInsertBucket with the bug of displacing the caller's own key like
\* any other richer entry.
RECURSIVE RobinhoodInsertBucketNoLoopGuard(_, _, _)
RobinhoodInsertBucketNoLoopGuard(bucket, i, l) ==
    IF i >= BucketSize THEN [bucket |-> bucket, locals |-> l, ret |-> "full"]
    ELSE IF bucket[i].key = Sentinel
    THEN [bucket |-> [bucket EXCEPT ![i] = [key |-> l.key, payload |-> l.payload,
                                            psl |-> l.probing_step]],
          locals |-> l, ret |-> "true"]
    ELSE IF bucket[i].key = l.key
    THEN [bucket |-> bucket, locals |-> l, ret |-> "false"]
    ELSE IF bucket[i].psl < l.probing_step
    THEN LET rich_slot == bucket[i]
         IN  RobinhoodInsertBucketNoLoopGuard(
                 [bucket EXCEPT ![i] = [key |-> l.key, payload |-> l.payload,
                                        psl |-> l.probing_step]],
                 i + 1,
                 [l EXCEPT !.key = rich_slot.key,
                           !.payload = rich_slot.payload,
                           !.probing_step = rich_slot.psl,
                           !.orig_slot_index = reductionfn(hashfn(rich_slot.key))])
    ELSE RobinhoodInsertBucketNoLoopGuard(bucket, i + 1, l)

\* RobinhoodInsertBucket with the bug of carrying a displaced entry on from
\* the origin of the key that displaced it.
RECURSIVE RobinhoodInsertBucketKeepsOrigin(_, _, _)
RobinhoodInsertBucketKeepsOrigin(bucket, i, l) ==
    IF i >= BucketSize THEN [bucket |-> bucket, locals |-> l, ret |-> "full"]
    ELSE IF bucket[i].key = Sentinel
    THEN [bucket |-> [bucket EXCEPT ![i] = [key |-> l.key, payload |-> l.payload,
                                            psl |-> l.probing_step]],
          locals |-> l, ret |-> "true"]
    ELSE IF bucket[i].key = l.key
    THEN [bucket |-> bucket, locals |-> l, ret |-> "false"]
    ELSE IF bucket[i].psl < l.probing_step
    THEN LET rich_slot == bucket[i]
         IN  IF l.orig_key = rich_slot.key
             THEN [bucket |-> bucket, locals |-> l, ret |-> "loop"]
             ELSE RobinhoodInsertBucketKeepsOrigin(
                      [bucket EXCEPT ![i] = [key |-> l.key, payload |-> l.payload,
                                             psl |-> l.probing_step]],
                      i + 1,
                      [l EXCEPT !.key = rich_slot.key,
                                !.payload = rich_slot.payload,
                                !.probing_step = rich_slot.psl])
    ELSE RobinhoodInsertBucketKeepsOrigin(bucket, i + 1, l)

\* The for loop of RobinhoodProbing::insert over the slots of one bucket, from
\* slot i on.  l holds the locals key, payload, probing_step, orig_slot_index
\* and orig_key; the result is the bucket, the locals and "true" (stored),
\* "false" (key found), "loop" (the infinite-loop error) or "full".
RECURSIVE RobinhoodInsertBucket(_, _, _)
RobinhoodInsertBucket(bucket, i, l) ==
    IF i >= BucketSize THEN [bucket |-> bucket, locals |-> l, ret |-> "full"]
    ELSE IF bucket[i].key = Sentinel
    THEN [bucket |-> [bucket EXCEPT ![i] = [key |-> l.key, payload |-> l.payload,
                                            psl |-> l.probing_step]],
          locals |-> l, ret |-> "true"]
    ELSE IF bucket[i].key = l.key
    THEN [bucket |-> bucket, locals |-> l, ret |-> "false"]
    ELSE IF bucket[i].psl < l.probing_step
    THEN LET rich_slot == bucket[i]
         IN  IF l.orig_key = rich_slot.key
             THEN [bucket |-> bucket, locals |-> l, ret |-> "loop"]
             ELSE RobinhoodInsertBucket(
                      [bucket EXCEPT ![i] = [key |-> l.key, payload |-> l.payload,
                                             psl |-> l.probing_step]],
                      i + 1,
                      [l EXCEPT !.key = rich_slot.key,
                                !.payload = rich_slot.payload,
                                !.probing_step = rich_slot.psl,
                                !.orig_slot_index = reductionfn(hashfn(rich_slot.key))])
    ELSE RobinhoodInsertBucket(bucket, i + 1, l)

\* RobinhoodProbing::insert up to and including the first omp_set_lock: the
\* sentinel test (asserts disabled), the home index, and the lock of the home
\* bucket, which the thread waits for.
RobinhoodInsertBegin(t, k, p) ==
    /\ engine = "robinhood"
    /\ pc[t] = "idle"
    /\ IF k = Sentinel
       THEN /\ ret' = [ret EXCEPT ![t] = "false"]
            /\ UNCHANGED <<pc, locals, locks, history>>
       ELSE LET orig_slot_index == reductionfn(hashfn(k))
            IN  /\ locks[orig_slot_index] = 0
                /\ locks' = [locks EXCEPT ![orig_slot_index] = t]
                /\ pc' = [pc EXCEPT ![t] = "scan"]
                /\ locals' = [locals EXCEPT ![t] =
                                [InitLocals EXCEPT !.key = k, !.payload = p, !.orig_key = k,
                                                   !.orig_slot_index = orig_slot_index,
                                                   !.slot_index = orig_slot_index,
                                                   !.probing_step = 0]]
                /\ ret' = [ret EXCEPT ![t] = "none"]
                /\ NoteInsert(k, p)
                /\ UNCHANGED threw
    /\ arg' = [arg EXCEPT ![t] = make_optional(k)]
    /\ UNCHANGED <<config, slots, buckets, has_failed, moved>>

\* The head of a later round of the for (;;) loop:
\* omp_set_lock(&(locks[slot_index])).
RobinhoodLock(t) ==
    /\ engine = "robinhood"
    /\ pc[t] = "probe"
    /\ locks[locals[t].slot_index] = 0
    /\ locks' = [locks EXCEPT ![locals[t].slot_index] = t]
    /\ pc' = [pc EXCEPT ![t] = "scan"]
    /\ UNCHANGED <<config, slots, buckets, has_failed, locals, ret, history, moved, arg>>

\* The scan of the locked bucket with its displacements, then the return, the
\* infinite-loop error (raised with the lock still set), or omp_unset_lock
\* and the next probe index with its cycle test.
RobinhoodScan(t) ==
    /\ engine = "robinhood"
    /\ pc[t] = "scan"
    /\ LET slot_index == locals[t].slot_index
           r == RobinhoodInsertBucket(buckets[slot_index], 0, locals[t])
           l == r.locals
           next == probingfn(l.orig_slot_index, l.probing_step + 1)
       IN  /\ buckets' = [buckets EXCEPT ![slot_index] = r.bucket]
           /\ moved' = (moved \/ l.key # locals[t].key)
           /\ IF r.ret = "loop"
              THEN /\ Throw(t, "infinite_loop")
                   /\ UNCHANGED locks
              ELSE /\ locks' = [locks EXCEPT ![slot_index] = 0]
                   /\ IF r.ret # "full" THEN Return(t, r.ret)
                      ELSE IF next = l.orig_slot_index THEN Throw(t, "cycle")
                      ELSE /\ locals' = [locals EXCEPT ![t] =
                                            [l EXCEPT !.slot_index = next,
                                                      !.probing_step = l.probing_step + 1]]
                           /\ pc' = [pc EXCEPT ![t] = "probe"]
                           /\ UNCHANGED <<ret, history>>
    /\ UNCHANGED <<config, slots, has_failed, arg>>

RobinhoodLookup(key) ==
    IF key = Sentinel THEN nullopt
    ELSE ProbeLookupWalk(reductionfn(hashfn(key)), reductionfn(hashfn(key)), 0, key)

NextRobinhood ==
    \/ \E k \in Keys \cup {Sentinel}, p \in Payload : RobinhoodInsertBegin(MainThread, k, p)
    \/ RobinhoodLock(MainThread)
    \/ RobinhoodScan(MainThread)

SpecRobinhood == InitRobinhood /\ [][NextRobinhood]_vars

\* Sequential inserts of any keys, one more than the buckets of the largest
\* table: an insert into a full table may carry displaced entries all the way
\* round.  insert never reads a payload: key k comes with payload k mod 2.
NextRobinhoodAnyKey ==
    \/ \E k \in AllKeys : RobinhoodInsertBegin(MainThread, k, k % 2)
    \/ RobinhoodLock(MainThread)
    \/ RobinhoodScan(MainThread)

SpecRobinhoodAnyKey == InitRobinhood /\ [][NextRobinhoodAnyKey]_vars

\* =============================================================== Cuckoo
\* The second hash / reducer pair of a Cuckoo table (the first is hashfn and
\* reductionfn): another collaborator, colliding with the first on some keys.
hashfn2(k) == 2 * k + 1

reductionfn2(h) == h % D

\* The largest word rand_() returns, std::numeric_limits<uint32_t>::max(),
\* narrowed to 16 bits: only its parity, its residue by BucketSize and its
\* order against threshold_ are used.
RngMax == 2^16 - 1

\* uint32_t threshold_ = max(uint32_t) * (Bias / 100.0)
Threshold == (RngMax * Bias) \div 100

\* Values of the word rand_() returns: both parities, every residue of the
\* bucket sizes, the smallest and the largest words, threshold_ and the word
\* after it.
Rng == (0..5) \cup ((RngMax - 5)..RngMax) \cup ({Threshold, Threshold + 1} \cap (0..RngMax))

InitCuckoo ==
    /\ engine = "cuckoo"
    /\ InitCommon
    /\ HashFn = "modulo"
    /\ ProbingFn = "linear"
    /\ MaxProbingSteps = DefaultMaxProbingSteps
    /\ \/ KickingFn = "balanced" /\ Bias = 0
       \/ KickingFn = "biased" /\ Bias = 0
    /\ slots = << >>
    /\ buckets = [i \in 0..(CuckooDirectoryAddressCount(capacity) - 1) |-> NewBucket]
    /\ locks = [i \in 0..(CuckooDirectoryAddressCount(capacity) - 1) |-> 0]

\* The number of occupied slots of a bucket (the c1 / c2 loop).
Occupied(b) == Cardinality({i \in 0..(BucketSize - 1) : b[i].key # Sentinel})

\* KickVictim with the bug of handing the victim's key back with the new
\* entry's payload.
KickVictimNewPayload(b1, b2, key, payload, first, victim_index) ==
    LET victim_bucket == IF first THEN b1 ELSE b2
        written == [victim_bucket EXCEPT ![victim_index] = [key |-> key, payload |-> payload]]
    IN  [b1 |-> IF first THEN written ELSE b1,
         b2 |-> IF first THEN b2 ELSE written,
         kicked |-> make_optional([key |-> victim_bucket[victim_index].key,
                                   payload |-> payload])]

\* The eviction both policies end with: the entry at victim_index of the
\* victim bucket is replaced and handed back.
KickVictim(b1, b2, key, payload, first, victim_index) ==
    LET victim_bucket == IF first THEN b1 ELSE b2
        written == [victim_bucket EXCEPT ![victim_index] = [key |-> key, payload |-> payload]]
    IN  [b1 |-> IF first THEN written ELSE b1,
         b2 |-> IF first THEN b2 ELSE written,
         kicked |-> make_optional([key |-> victim_bucket[victim_index].key,
                                   payload |-> victim_bucket[victim_index].payload])]

\* BalancedKicking with the bug of evicting whenever the second bucket is full.
BalancedKickingEvictsEarly(b1, b2, key, payload, rng) ==
    LET c1 == Occupied(b1)
        c2 == Occupied(b2)
    IN  IF c1 <= c2 /\ c2 < BucketSize
        THEN [b1 |-> [b1 EXCEPT ![c1] = [key |-> key, payload |-> payload]],
              b2 |-> b2, kicked |-> nullopt]
        ELSE IF c2 < BucketSize
        THEN [b1 |-> b1,
              b2 |-> [b2 EXCEPT ![c2] = [key |-> key, payload |-> payload]],
              kicked |-> nullopt]
        ELSE KickVictim(b1, b2, key, payload, rng % 2 = 1, rng % BucketSize)

\* BalancedKicking::operator()
BalancedKicking(b1, b2, key, payload, rng) ==
    LET c1 == Occupied(b1)
        c2 == Occupied(b2)
    IN  IF c1 <= c2 /\ c1 < BucketSize
        THEN [b1 |-> [b1 EXCEPT ![c1] = [key |-> key, payload |-> payload]],
              b2 |-> b2, kicked |-> nullopt]
        ELSE IF c2 < BucketSize
        THEN [b1 |-> b1,
              b2 |-> [b2 EXCEPT ![c2] = [key |-> key, payload |-> payload]],
              kicked |-> nullopt]
        ELSE KickVictim(b1, b2, key, payload, rng % 2 = 1, rng % BucketSize)

\* BiasedKicking with the comparison turned round: bucket 2 is the victim
\* bucket when rng is above the threshold.
BiasedKickingSecondAboveThreshold(b1, b2, key, payload, rng) ==
    LET c1 == Occupied(b1)
        c2 == Occupied(b2)
    IN  IF c1 < BucketSize
        THEN [b1 |-> [b1 EXCEPT ![c1] = [key |-> key, payload |-> payload]],
              b2 |-> b2, kicked |-> nullopt]
        ELSE IF c2 < BucketSize
        THEN [b1 |-> b1,
              b2 |-> [b2 EXCEPT ![c2] = [key |-> key, payload |-> payload]],
              kicked |-> nullopt]
        ELSE KickVictim(b1, b2, key, payload, ~(rng > Threshold), rng % BucketSize)

\* BiasedKicking<Bias>::operator()
BiasedKicking(b1, b2, key, payload, rng) ==
    LET c1 == Occupied(b1)
        c2 == Occupied(b2)
    IN  IF c1 < BucketSize
        THEN [b1 |-> [b1 EXCEPT ![c1] = [key |-> key, payload |-> payload]],
              b2 |-> b2, kicked |-> nullopt]
        ELSE IF c2 < BucketSize
        THEN [b1 |-> b1,
              b2 |-> [b2 EXCEPT ![c2] = [key |-> key, payload |-> payload]],
              kicked |-> nullopt]
        ELSE KickVictim(b1, b2, key, payload, rng > Threshold, rng % BucketSize)

\* The words a call of the policy may draw: rand_() is called only when both
\* buckets are full.
Drawn(b1, b2) ==
    IF Occupied(b1) = BucketSize /\ Occupied(b2) = BucketSize THEN Rng ELSE {0}

kickingfn(b1, b2, key, payload, rng) ==
    IF KickingFn = "balanced" THEN BalancedKicking(b1, b2, key, payload, rng)
    ELSE BiasedKicking(b1, b2, key, payload, rng)

\* i1 of insert and lookup.
CuckooI1(key) == reductionfn(hashfn(key))

\* i2 of insert and lookup, moved off i1.
CuckooI2(key) ==
    LET i1 == CuckooI1(key)
        i2 == reductionfn2(hashfn2(key))
    IN  IF i2 = i1 THEN (IF i1 = D - 1 THEN 0 ELSE i1 + 1) ELSE i2

\* CuckooUpdate with the bug of looking for key in the first bucket only.
CuckooUpdateFirstBucketOnly(b1, b2, key, payload) ==
    LET hits == {i \in 0..(BucketSize - 1) : b1[i].key = key}
    IN  IF hits = {} THEN [found |-> FALSE, b1 |-> b1, b2 |-> b2]
        ELSE [found |-> TRUE, b1 |-> [b1 EXCEPT ![Min(hits)].payload = payload], b2 |-> b2]

\* The loop of insert that looks for key in both buckets, slot by slot, and
\* overwrites its payload.
CuckooUpdate(b1, b2, key, payload) ==
    LET hits == {i \in 0..(BucketSize - 1) : b1[i].key = key \/ b2[i].key = key}
        i == Min(hits)
    IN  IF hits = {} THEN [found |-> FALSE, b1 |-> b1, b2 |-> b2]
        ELSE IF b1[i].key = key
        THEN [found |-> TRUE, b1 |-> [b1 EXCEPT ![i].payload = payload], b2 |-> b2]
        ELSE [found |-> TRUE, b1 |-> b1, b2 |-> [b2 EXCEPT ![i].payload = payload]]

\* CuckooOrdered with the bug of leaving out the swap.
CuckooOrderedNoSwap(key) == [i1 |-> CuckooI1(key), i2 |-> CuckooI2(key)]

\* The two bucket indices of a round of insert, in ascending order.
CuckooOrdered(key) ==
    LET a == CuckooI1(key)
        b == CuckooI2(key)
    IN  [i1 |-> IF b < a THEN b ELSE a, i2 |-> IF b < a THEN a ELSE b]

\* insert(key, value), which calls insert(key, value, 0), up to and including
\* locks[i1].lock(): with kick_count = 0 the kick limit is not reached.
CuckooInsertBegin(t, k, p) ==
    /\ engine = "cuckoo"
    /\ pc[t] = "idle"
    /\ LET o == CuckooOrdered(k)
       IN  /\ locks[o.i1] = 0
           /\ locks' = [locks EXCEPT ![o.i1] = t]
           /\ locals' = [locals EXCEPT ![t] =
                           [InitLocals EXCEPT !.key = k, !.payload = p, !.kick_count = 0,
                                              !.i1 = o.i1, !.i2 = o.i2]]
    /\ pc' = [pc EXCEPT ![t] = "lock2"]
    /\ ret' = [ret EXCEPT ![t] = "none"]
    /\ NoteInsert(k, p)
    /\ arg' = [arg EXCEPT ![t] = make_optional(k)]
    /\ UNCHANGED <<config, slots, buckets, has_failed, threw, moved>>

\* CuckooStart with the bug of raising as soon as kick_count reaches the limit.
CuckooStartRaisesEarly(t) ==
    /\ engine = "cuckoo"
    /\ pc[t] = "start"
    /\ IF locals[t].kick_count >= MaxKickCycleLength
       THEN /\ has_failed' = TRUE
            /\ Throw(t, "max_kick_cycle")
            /\ UNCHANGED locks
       ELSE LET o == CuckooOrdered(locals[t].key)
            IN  /\ locks[o.i1] = 0
                /\ locks' = [locks EXCEPT ![o.i1] = t]
                /\ locals' = [locals EXCEPT ![t].i1 = o.i1, ![t].i2 = o.i2]
                /\ pc' = [pc EXCEPT ![t] = "lock2"]
                /\ UNCHANGED <<has_failed, ret, history>>
    /\ UNCHANGED <<config, slots, buckets, moved, arg>>

\* CuckooStart with the bug of going back to the buckets of the previous round
\* and not to those of the evicted key.
CuckooStartKeepsIndices(t) ==
    /\ engine = "cuckoo"
    /\ pc[t] = "start"
    /\ IF locals[t].kick_count > MaxKickCycleLength
       THEN /\ has_failed' = TRUE
            /\ Throw(t, "max_kick_cycle")
            /\ UNCHANGED locks
       ELSE /\ locks[locals[t].i1] = 0
            /\ locks' = [locks EXCEPT ![locals[t].i1] = t]
            /\ pc' = [pc EXCEPT ![t] = "lock2"]
            /\ UNCHANGED <<has_failed, locals, ret, history>>
    /\ UNCHANGED <<config, slots, buckets, moved, arg>>

\* A later round, from the label start to locks[i1].lock(): the kick limit,
\* the two indices in ascending order, and the first lock.
CuckooStart(t) ==
    /\ engine = "cuckoo"
    /\ pc[t] = "start"
    /\ IF locals[t].kick_count > MaxKickCycleLength
       THEN /\ has_failed' = TRUE
            /\ Throw(t, "max_kick_cycle")
            /\ UNCHANGED locks
       ELSE LET o == CuckooOrdered(locals[t].key)
            IN  /\ locks[o.i1] = 0
                /\ locks' = [locks EXCEPT ![o.i1] = t]
                /\ locals' = [locals EXCEPT ![t].i1 = o.i1, ![t].i2 = o.i2]
                /\ pc' = [pc EXCEPT ![t] = "lock2"]
                /\ UNCHANGED <<has_failed, ret, history>>
    /\ UNCHANGED <<config, slots, buckets, moved, arg>>

\* locks[i2].lock()
CuckooLockSecond(t) ==
    /\ engine = "cuckoo"
    /\ pc[t] = "lock2"
    /\ locks[locals[t].i2] = 0
    /\ locks' = [locks EXCEPT ![locals[t].i2] = t]
    /\ pc' = [pc EXCEPT ![t] = "cs"]
    /\ UNCHANGED <<config, slots, buckets, has_failed, locals, ret, history, moved, arg>>

\* With both locks held: the update of a stored key, or the kicking policy;
\* both unlocks; then the return, or the restart with the evicted entry.
CuckooInsertBody(t) ==
    /\ engine = "cuckoo"
    /\ pc[t] = "cs"
    /\ LET l == locals[t]
           u == CuckooUpdate(buckets[l.i1], buckets[l.i2], l.key, l.payload)
       IN  /\ locks' = [locks EXCEPT ![l.i2] = 0, ![l.i1] = 0]
           /\ IF u.found
              THEN /\ buckets' = [buckets EXCEPT ![l.i1] = u.b1, ![l.i2] = u.b2]
                   /\ Return(t, "void")
                   /\ UNCHANGED <<has_failed, moved>>
              ELSE \E rng \in Drawn(buckets[l.i1], buckets[l.i2]) :
                      LET r == kickingfn(buckets[l.i1], buckets[l.i2], l.key, l.payload, rng)
                      IN  /\ buckets' = [buckets EXCEPT ![l.i1] = r.b1, ![l.i2] = r.b2]
                          /\ moved' = (moved \/ r.kicked # nullopt)
                          /\ UNCHANGED has_failed
                          /\ IF r.kicked = nullopt THEN Return(t, "void")
                             ELSE IF has_failed THEN Return(t, "void")
                             ELSE /\ locals' = [locals EXCEPT
                                                   ![t].key = r.kicked[1].key,
                                                   ![t].payload = r.kicked[1].payload,
                                                   ![t].kick_count = l.kick_count + 1]
                                  /\ pc' = [pc EXCEPT ![t] = "start"]
                                  /\ UNCHANGED <<ret, history>>
    /\ UNCHANGED <<config, slots, arg>>

\* The first payload of a bucket slot holding key, if any (the for loop of
\* lookup over one bucket).
CuckooFind(b, key) ==
    LET hits == {i \in 0..(BucketSize - 1) : b[i].key = key}
    IN  IF hits = {} THEN nullopt ELSE make_optional(b[Min(hits)].payload)

CuckooLookup(key) ==
    LET f1 == CuckooFind(buckets[CuckooI1(key)], key)
    IN  IF f1 # nullopt THEN f1 ELSE CuckooFind(buckets[CuckooI2(key)], key)

\* clear(): every slot's key becomes the sentinel; payloads and has_failed are
\* left as they are.  It takes no lock: it is called while no insert is in
\* progress.  The history of insert calls starts again, but for threw.
CuckooClear ==
    /\ engine = "cuckoo"
    /\ \A t \in Threads : pc[t] = "idle"
    /\ buckets' = [i \in 0..(D - 1) |->
                     [j \in 0..(BucketSize - 1) |-> [buckets[i][j] EXCEPT !.key = Sentinel]]]
    /\ inserted' = [k \in Key |-> nullopt]
    /\ repeated' = FALSE
    /\ moved' = FALSE
    /\ UNCHANGED <<config, slots, locks, has_failed, pc, locals, ret, threw, arg>>

\* Callers hand Cuckoo::insert keys other than the sentinel, which it does not
\* test for.  Its counters max_kick_cnt and total_kick_cnt, which only
\* lookup_statistics reads, are left out.
NextCuckoo ==
    \/ \E k \in Keys, p \in Payload : CuckooInsertBegin(MainThread, k, p)
    \/ CuckooStart(MainThread)
    \/ CuckooLockSecond(MainThread)
    \/ CuckooInsertBody(MainThread)

SpecCuckoo == InitCuckoo /\ [][NextCuckoo]_vars

\* Tables of either open-addressing engine.
InitProbingFamily == InitProbing \/ InitRobinhood

SpecProbingFamily == InitProbingFamily /\ [][NextProbing \/ NextRobinhood]_vars

\* Tables of the three engines whose insert and lookup test for the sentinel,
\* built with the modulo hash (the test comes before any use of the hash).
InitRejecting == (InitChained \/ InitProbing \/ InitRobinhood) /\ HashFn = "modulo"

SpecRejecting ==
    /\ InitRejecting
    /\ [][NextChained \/ NextProbing \/ NextRobinhood]_vars

\* ------------------------------------------- quadratic probing cycles
\* Largest capacity of the tables built to look at quadratic probe sequences.
\* With 9 buckets the sequence is back at its origin at step 3 and reaches
\* origin + 7 at step 4 only.
MaxQuadraticCapacity == 9

\* Probing tables with quadratic probing, one slot per bucket and up to
\* MaxQuadraticCapacity buckets.
InitQuadratic ==
    /\ engine = "probing"
    /\ capacity \in 1..MaxQuadraticCapacity
    /\ BucketSize = 1
    /\ InitCalls
    /\ HashFn \in {"modulo", "constant"}
    /\ ProbingFn = "quadratic"
    /\ MaxProbingSteps = DefaultMaxProbingSteps
    /\ KickingFn = "balanced"
    /\ Bias = 0
    /\ slots = << >>
    /\ buckets = [i \in 0..(ProbingDirectoryAddressCount(capacity) - 1) |-> NewBucket]
    /\ locks = [i \in 0..(ProbingDirectoryAddressCount(capacity) - 1) |-> 0]

\* Sequential inserts of any keys; insert never reads a payload: key k comes
\* with payload k mod 2.
NextQuadratic ==
    \/ \E k \in AllKeys : ProbingInsertBegin(MainThread, k, k % 2)
    \/ ProbingLock(MainThread)
    \/ ProbingScan(MainThread)

SpecQuadratic == InitQuadratic /\ [][NextQuadratic]_vars

\* ------------------------------------------------ concurrent builds
\* Several threads call insert on one table, which its per-entry locks are
\* there for.  A build hands every key to one insert call.
NextChainedBuild ==
    \E t \in Threads :
        \/ \E k \in Keys, p \in Payload :
              inserted[k] = nullopt /\ ChainedInsertBegin(t, k, p)
        \/ ChainedInsertBody(t)

SpecChainedBuild == InitChained /\ [][NextChainedBuild]_vars

\* A build in which one key is handed to two insert calls.  A call that finds
\* the lock of its entry taken waits in ChainedInsertBegin, so that two calls
\* made at the same time take their turns here in either order.
NextChainedSameKey ==
    \E t \in Threads :
        \/ \E k \in Keys, p \in Payload :
              (inserted[k] = nullopt \/ ~repeated) /\ ChainedInsertBegin(t, k, p)
        \/ ChainedInsertBody(t)

SpecChainedSameKey == InitChained /\ [][NextChainedSameKey]_vars

\* Probing tables built with the modulo hash.
InitProbingModulo == InitProbing /\ HashFn = "modulo"

\* Several threads call Probing::insert on one table; one key is handed to two
\* insert calls, which may be in progress together.  insert never reads a
\* payload: the first call of a key carries payload 0, the repeated one 1.
NextProbingSameKey ==
    \E t \in Threads :
        \/ \E k \in Keys :
              /\ inserted[k] = nullopt \/ ~repeated
              /\ ProbingInsertBegin(t, k, IF inserted[k] = nullopt THEN 0 ELSE 1)
        \/ ProbingLock(t)
        \/ ProbingScan(t)

SpecProbingSameKey == InitProbingModulo /\ [][NextProbingSameKey]_vars

\* Several threads build one Probing table, every key handed to one insert
\* call.  insert never reads a payload: key k comes with payload k mod 2.
NextProbingBuild ==
    \E t \in Threads :
        \/ \E k \in Keys :
              inserted[k] = nullopt /\ ProbingInsertBegin(t, k, k % 2)
        \/ ProbingLock(t)
        \/ ProbingScan(t)

SpecProbingBuild == InitProbing /\ [][NextProbingBuild]_vars

\* Several threads build one RobinhoodProbing table, every key handed to one
\* insert call.  insert never reads a payload: key k comes with payload k mod 2.
NextRobinhoodBuild ==
    \E t \in Threads :
        \/ \E k \in Keys :
              inserted[k] = nullopt /\ RobinhoodInsertBegin(t, k, k % 2)
        \/ RobinhoodLock(t)
        \/ RobinhoodScan(t)

SpecRobinhoodBuild == InitRobinhood /\ [][NextRobinhoodBuild]_vars

\* Several threads build one Cuckoo table, every key handed to one insert
\* call.  insert never reads a payload: key k comes with payload k mod 2.
NextCuckooBuild ==
    \E t \in Threads :
        \/ \E k \in Keys :
              inserted[k] = nullopt /\ CuckooInsertBegin(t, k, k % 2)
        \/ CuckooStart(t)
        \/ CuckooLockSecond(t)
        \/ CuckooInsertBody(t)

\* Cuckoo tables with the balanced kicking policy, which may evict any entry
\* of either bucket.
InitCuckooBalanced == InitCuckoo /\ KickingFn = "balanced"

SpecCuckooBuild == InitCuckooBalanced /\ [][NextCuckooBuild]_vars

\* Sequential builds of one Cuckoo table, with clear() between them; key k
\* comes with payload k mod 2.
NextCuckooClear ==
    \/ \E k \in Keys :
          inserted[k] = nullopt /\ CuckooInsertBegin(MainThread, k, k % 2)
    \/ CuckooStart(MainThread)
    \/ CuckooLockSecond(MainThread)
    \/ CuckooInsertBody(MainThread)
    \/ CuckooClear

SpecCuckooClear == InitCuckoo /\ [][NextCuckooClear]_vars

\* ------------------------------------------------------ kicking policies
\* Largest capacity of the tables built to look at the kicking policies: with
\* 4 buckets of one slot some key finds its lower bucket empty and its higher
\* bucket full.
MaxKickingCapacity == 4

\* The Bias template arguments BiasedKicking is built with: UnbiasedKicking,
\* an even chance, and every eviction from the second bucket.
Biases == {0, 50, 100}

\* Cuckoo tables of up to MaxKickingCapacity slots with either policy.
InitKicking ==
    /\ engine = "cuckoo"
    /\ capacity \in 1..MaxKickingCapacity
    /\ BucketSize \in 1..MaxBucketSize
    /\ InitCalls
    /\ HashFn = "modulo"
    /\ ProbingFn = "linear"
    /\ MaxProbingSteps = DefaultMaxProbingSteps
    /\ \/ KickingFn = "balanced" /\ Bias = 0
       \/ KickingFn = "biased" /\ Bias \in Biases
    /\ slots = << >>
    /\ buckets = [i \in 0..(CuckooDirectoryAddressCount(capacity) - 1) |-> NewBucket]
    /\ locks = [i \in 0..(CuckooDirectoryAddressCount(capacity) - 1) |-> 0]

\* Sequential builds, every key handed to one insert call; key k comes with
\* payload k mod 2.
NextKicking ==
    \/ \E k \in AllKeys :
          inserted[k] = nullopt /\ CuckooInsertBegin(MainThread, k, k % 2)
    \/ CuckooStart(MainThread)
    \/ CuckooLockSecond(MainThread)
    \/ CuckooInsertBody(MainThread)

SpecKicking == InitKicking /\ [][NextKicking]_vars

\* ---------------------------------------------------------------- clear
\* Chained::clear(): every first-level slot's key becomes the sentinel and its
\* chain is freed; payloads are left as they are.  It takes and releases no
\* lock: it is called while no insert is in progress.  The history of insert
\* calls starts again, but for threw.
ChainedClear ==
    /\ engine = "chained"
    /\ \A t \in Threads : pc[t] = "idle"
    /\ slots' = [i \in 0..(D - 1) |->
                   [slots[i] EXCEPT !.key = Sentinel, !.buckets = << >>]]
    /\ inserted' = [k \in Key |-> nullopt]
    /\ repeated' = FALSE
    /\ moved' = FALSE
    /\ UNCHANGED <<config, buckets, locks, has_failed, pc, locals, ret, threw, arg>>

\* Probing::clear(): every slot's key becomes the sentinel.
ProbingClear ==
    /\ engine = "probing"
    /\ \A t \in Threads : pc[t] = "idle"
    /\ buckets' = [i \in 0..(D - 1) |->
                     [j \in 0..(BucketSize - 1) |-> [buckets[i][j] EXCEPT !.key = Sentinel]]]
    /\ inserted' = [k \in Key |-> nullopt]
    /\ repeated' = FALSE
    /\ moved' = FALSE
    /\ UNCHANGED <<config, slots, locks, has_failed, pc, locals, ret, threw, arg>>

\* RobinhoodProbing::clear(): every slot's key becomes the sentinel; payload
\* and psl are left as they are.
RobinhoodClear ==
    /\ engine = "robinhood"
    /\ \A t \in Threads : pc[t] = "idle"
    /\ buckets' = [i \in 0..(D - 1) |->
                     [j \in 0..(BucketSize - 1) |-> [buckets[i][j] EXCEPT !.key = Sentinel]]]
    /\ inserted' = [k \in Key |-> nullopt]
    /\ repeated' = FALSE
    /\ moved' = FALSE
    /\ UNCHANGED <<config, slots, locks, has_failed, pc, locals, ret, threw, arg>>

\* Tables of the three engines with a clear() of their own text.
InitClear == InitChained \/ InitProbing \/ InitRobinhood

\* Sequential inserts of any keys, with clear() between them; key k comes with
\* payload k mod 2.
NextClear ==
    \/ \E k \in AllKeys : ChainedInsertBegin(MainThread, k, k % 2)
    \/ ChainedInsertBody(MainThread)
    \/ \E k \in AllKeys : ProbingInsertBegin(MainThread, k, k % 2)
    \/ ProbingLock(MainThread)
    \/ ProbingScan(MainThread)
    \/ \E k \in AllKeys : RobinhoodInsertBegin(MainThread, k, k % 2)
    \/ RobinhoodLock(MainThread)
    \/ RobinhoodScan(MainThread)
    \/ ChainedClear
    \/ ProbingClear
    \/ RobinhoodClear

SpecClear == InitClear /\ [][NextClear]_vars

\* ----------------------------------------------------- sequential runs
\* Sequential inserts of any keys into a Chained, Probing or RobinhoodProbing
\* table; key k comes with payload k mod 2.
NextSequential ==
    \/ \E k \in AllKeys : ChainedInsertBegin(MainThread, k, k % 2)
    \/ ChainedInsertBody(MainThread)
    \/ \E k \in AllKeys : ProbingInsertBegin(MainThread, k, k % 2)
    \/ ProbingLock(MainThread)
    \/ ProbingScan(MainThread)
    \/ \E k \in AllKeys : RobinhoodInsertBegin(MainThread, k, k % 2)
    \/ RobinhoodLock(MainThread)
    \/ RobinhoodScan(MainThread)

\* The next step of the insert call thread t is in.
InsertStep(t) ==
    \/ ChainedInsertBody(t)
    \/ ProbingLock(t)
    \/ ProbingScan(t)
    \/ RobinhoodLock(t)
    \/ RobinhoodScan(t)

\* The thread inside an insert call keeps running: it takes its next step
\* whenever that step can be taken (omp_set_lock returns once the lock is
\* unset).
SpecSequentialFair ==
    InitClear /\ [][NextSequential]_vars /\ WF_vars(InsertStep(MainThread))

\* --------------------------------------------------- lookup_statistics
\* The for (;;) loop of lookup_statistics (the same text in Probing and
\* RobinhoodProbing) for one key of the dataset, from the bucket at slot_index,
\* reached at probing_step, on: the probing step at which the key is found, if
\* it is found before an empty slot or the end of the probe cycle.
RECURSIVE StatisticsWalk(_, _, _, _)
StatisticsWalk(orig_slot_index, slot_index, probing_step, key) ==
    LET bucket == buckets[slot_index]
        i == FirstEmptyOrKey(bucket, key)
        next == probingfn(orig_slot_index, probing_step + 1)
    IN  IF i < BucketSize
        THEN IF bucket[i].key = key THEN make_optional(probing_step) ELSE nullopt
        ELSE IF next = orig_slot_index THEN nullopt
        ELSE StatisticsWalk(orig_slot_index, next, probing_step + 1, key)

\* The loop of lookup_statistics over the dataset, from its n-th key on, with
\* the counters min_psl, max_psl and total_psl in st.
RECURSIVE StatisticsLoop(_, _, _)
StatisticsLoop(dataset, n, st) ==
    IF n > Len(dataset) THEN st
    ELSE LET key == dataset[n]
             found == StatisticsWalk(reductionfn(hashfn(key)), reductionfn(hashfn(key)), 0, key)
         IN  StatisticsLoop(dataset, n + 1,
                IF found = nullopt THEN st
                ELSE [min_psl |-> IF found[1] < st.min_psl THEN found[1] ELSE st.min_psl,
                      max_psl |-> IF found[1] > st.max_psl THEN found[1] ELSE st.max_psl,
                      total_psl |-> st.total_psl + found[1]])

\* lookup_statistics(dataset): size_t min_psl = 0, max_psl = 0, total_psl = 0,
\* then the loop (average_psl, total_psl over the dataset's size, is left out).
lookup_statistics(dataset) ==
    StatisticsLoop(dataset, 1, [min_psl |-> 0, max_psl |-> 0, total_psl |-> 0])

\* The longest dataset handed to lookup_statistics.
MaxDatasetSize == 2

\* std::vector<Key> dataset
Datasets == UNION {[1..n -> AllKeys] : n \in 1..MaxDatasetSize}

\* ------------------------------------------------------ Cuckoo rewrite
\* Cuckoo tables of up to MaxKickingCapacity slots with the balanced policy.
InitCuckooRewrite ==
    /\ engine = "cuckoo"
    /\ capacity \in 1..MaxKickingCapacity
    /\ BucketSize \in 1..MaxBucketSize
    /\ InitCalls
    /\ HashFn = "modulo"
    /\ ProbingFn = "linear"
    /\ MaxProbingSteps = DefaultMaxProbingSteps
    /\ KickingFn = "balanced"
    /\ Bias = 0
    /\ slots = << >>
    /\ buckets = [i \in 0..(CuckooDirectoryAddressCount(capacity) - 1) |-> NewBucket]
    /\ locks = [i \in 0..(CuckooDirectoryAddressCount(capacity) - 1) |-> 0]

\* The key that is written twice.
RewrittenKey == 0

\* Thread t calls insert(RewrittenKey, 1) after the call insert(RewrittenKey, 0)
\* has returned; it is the last call made with that key.
CuckooRewriteBegin(t) ==
    /\ inserted[RewrittenKey] # nullopt
    /\ ~repeated
    /\ \A u \in Threads : pc[u] # "idle" => arg[u] # make_optional(RewrittenKey)
    /\ CuckooInsertBegin(t, RewrittenKey, 1)

\* Threads insert concurrently: every key is handed to one insert call with
\* payload 0, and RewrittenKey to a second one with payload 1.
NextCuckooRewrite ==
    \E t \in Threads :
        \/ \E k \in AllKeys : inserted[k] = nullopt /\ CuckooInsertBegin(t, k, 0)
        \/ CuckooRewriteBegin(t)
        \/ CuckooStart(t)
        \/ CuckooLockSecond(t)
        \/ CuckooInsertBody(t)

SpecCuckooRewrite == InitCuckooRewrite /\ [][NextCuckooRewrite]_vars

\* ======================================================= checked properties
\* No insert call is in progress.
Quiescent == \A t \in Threads : pc[t] = "idle"

\* The number of places of sequence s that hold x.
Count(s, x) == Cardinality({n \in 1..Len(s) : s[n] = x})

\* key sits in the inline slot or in some chain slot of a first-level slot.
ChainedHolds(slot, key) ==
    \/ slot.key = key
    \/ \E b \in 1..Len(slot.buckets), i \in 0..(BucketSize - 1) : slot.buckets[b][i].key = key

\* key is stored somewhere in the Chained table.
ChainedStored(key) == \E i \in 0..(D - 1) : ChainedHolds(slots[i], key)

\* A step of thread t that ends its insert call.
Returns(t) == pc[t] # "idle" /\ pc'[t] = "idle"

\* C1: after sequential Chained inserts of pairwise distinct keys, lookup(k)
\* is the payload inserted with k for every inserted key and a miss for every
\* other non-sentinel key.
C1_ChainedRoundTrip ==
    (engine = "chained" /\ Quiescent /\ ~repeated)
        => \A k \in Keys : ChainedLookup(k) = inserted[k]

\* C1 witness: one directory entry holds an inserted key in its chain, found
\* with its payload, while another key of the same entry was never inserted.
C1_Witness ==
    /\ engine = "chained" /\ Quiescent /\ ~repeated
    /\ \E k1, k2 \in Keys :
          /\ k1 # k2
          /\ reductionfn(hashfn(k1)) = reductionfn(hashfn(k2))
          /\ slots[reductionfn(hashfn(k1))].key \notin {k1, Sentinel}
          /\ inserted[k1] = make_optional(1)
          /\ ChainedLookup(k1) = make_optional(1)
          /\ inserted[k2] = nullopt
          /\ ChainedLookup(k2) = nullopt

\* C4: a Chained insert returns false exactly when its key is already stored
\* (inline or in the chain) or is the sentinel, and true otherwise.
C4_ChainedInsertFalseIffStored ==
    [][/\ (\E p \in Payload : ChainedInsertBegin(MainThread, Sentinel, p))
            => ret'[MainThread] = "false"
       /\ (engine = "chained" /\ Returns(MainThread))
            => ret'[MainThread] = (IF ChainedStored(locals[MainThread].key)
                                   THEN "false" ELSE "true")]_vars

\* C10: with a monotone hash and distinct inserted keys, lookup_range(min, max)
\* returns exactly the payloads of the stored keys in [min, max], each once.
C10_ChainedRange ==
    (engine = "chained" /\ Quiescent /\ ~repeated /\ Monotone)
        => \A min, max \in Keys :
              min <= max =>
                 \A p \in Payload :
                    Count(ChainedLookupRange(min, max), p)
                       = Cardinality({k \in min..max : inserted[k] = make_optional(p)})

\* C10 witness: a monotone table with a chain, a range that returns two or more
\* payloads, and an inserted key outside the range.
C10_Witness ==
    /\ engine = "chained" /\ Quiescent /\ ~repeated /\ Monotone
    /\ \E i \in 0..(D - 1) : slots[i].buckets # << >>
    /\ \E min, max \in Keys :
          /\ min <= max
          /\ Len(ChainedLookupRange(min, max)) >= 2
          /\ \E k \in Keys : (k < min \/ k > max) /\ inserted[k] # nullopt

\* lookup of the open-addressing engine the table was built with.
ProbeLookup(key) ==
    IF engine = "robinhood" THEN RobinhoodLookup(key) ELSE ProbingLookup(key)

\* The slots of a Probing, RobinhoodProbing or Cuckoo table that hold key.
SlotsHolding(key) ==
    {s \in (0..(D - 1)) \X (0..(BucketSize - 1)) : buckets[s[1]][s[2]].key = key}

\* C2: after sequential Probing or Robin-Hood inserts of pairwise distinct keys,
\* none of which raised, lookup(k) is the payload inserted with k for every
\* inserted key and a miss for every other key.
C2_ProbingRoundTrip ==
    (engine \in {"probing", "robinhood"} /\ Quiescent /\ ~repeated /\ ~threw)
        => \A k \in Keys : ProbeLookup(k) = inserted[k]

\* C2 witness: a Robin-Hood table in which an insert displaced an entry and
\* every call returned; a key stored away from its home bucket is found with
\* its payload.
C2_Witness ==
    /\ engine = "robinhood" /\ Quiescent /\ ~repeated /\ ~threw /\ moved
    /\ \E k \in Keys :
          /\ inserted[k] = make_optional(1)
          /\ ProbeLookup(k) = make_optional(1)
          /\ \E s \in SlotsHolding(k) : buckets[s[1]][s[2]].psl >= 1

\* C5: a sequential Probing insert of a key that is already stored changes no
\* slot and returns false.
C5_ProbingDuplicateRejected ==
    [][(engine = "probing" /\ pc[MainThread] # "idle"
            /\ SlotsHolding(locals[MainThread].key) # {})
          => /\ buckets' = buckets
             /\ Returns(MainThread) => ret'[MainThread] = "false"]_vars

\* C5 witness: the last Probing insert was handed a key stored away from its
\* home bucket and returned false; the key still sits there, once, with the
\* payload of its first insert.
C5_Witness ==
    /\ engine = "probing" /\ Quiescent /\ ret[MainThread] = "false"
    /\ \E k \in Keys :
          /\ arg[MainThread] = make_optional(k)
          /\ Cardinality(SlotsHolding(k)) = 1
          /\ \E s \in SlotsHolding(k) :
                /\ s[1] # reductionfn(hashfn(k))
                /\ make_optional(buckets[s[1]][s[2]].payload) = inserted[k]

\* No two occupied slots hold the same key.
NoDuplicateKey == \A k \in Keys : Cardinality(SlotsHolding(k)) <= 1

\* C6: a sequential Robin-Hood insert of a key that is already stored changes
\* no slot and returns false, and no two occupied slots ever hold the same key.
C6_RobinhoodDuplicateRejected ==
    [][(engine = "robinhood")
          => /\ NoDuplicateKey'
             /\ (pc[MainThread] # "idle" /\ SlotsHolding(locals[MainThread].key) # {})
                   => /\ buckets' = buckets
                      /\ Returns(MainThread) => ret'[MainThread] = "false"]_vars

\* C6 witness: the last Robin-Hood insert was handed a key stored at a probe
\* distance of one or more, in a table where entries were displaced, and
\* returned false; no key is stored twice.
C6_Witness ==
    /\ engine = "robinhood" /\ Quiescent /\ ret[MainThread] = "false" /\ moved
    /\ NoDuplicateKey
    /\ \E k \in Keys :
          /\ arg[MainThread] = make_optional(k)
          /\ \E s \in SlotsHolding(k) : buckets[s[1]][s[2]].psl >= 1

\* C3: after sequential Cuckoo inserts of pairwise distinct keys, none of which
\* raised the kick-limit error, lookup(k) is the payload inserted with k for
\* every inserted key and a miss for every other key.
C3_CuckooRoundTrip ==
    (engine = "cuckoo" /\ Quiescent /\ ~repeated /\ ~threw)
        => \A k \in Keys : CuckooLookup(k) = inserted[k]

\* C3 witness: a Cuckoo table in which an insert evicted an entry and every
\* call returned; a key sitting outside its first bucket is found with its
\* payload.
C3_Witness ==
    /\ engine = "cuckoo" /\ Quiescent /\ ~repeated /\ ~threw /\ moved
    /\ \E k \in Keys :
          /\ inserted[k] = make_optional(1)
          /\ CuckooLookup(k) = make_optional(1)
          /\ CuckooFind(buckets[CuckooI1(k)], k) = nullopt

\* C7: a single-threaded Cuckoo insert of a key that is already stored ends
\* in the round that finds it, leaves exactly one slot holding the key, with
\* the new payload, and changes no other slot.
C7_CuckooOverwrite ==
    [][(engine = "cuckoo" /\ pc[MainThread] # "idle")
          => LET key == locals[MainThread].key
                 held == SlotsHolding(key)
             IN  held # {}
                    => IF pc[MainThread] = "cs"
                       THEN /\ Returns(MainThread)
                            /\ Cardinality(held) = 1
                            /\ \A i \in 0..(D - 1), j \in 0..(BucketSize - 1) :
                                  buckets'[i][j] =
                                     IF <<i, j>> \in held
                                     THEN [key |-> key,
                                           payload |-> locals[MainThread].payload]
                                     ELSE buckets[i][j]
                       ELSE buckets' = buckets]_vars

\* C7 witness: the last Cuckoo insert was handed a key first inserted with
\* payload 0; the key sits in one slot, with payload 1.
C7_Witness ==
    /\ engine = "cuckoo" /\ Quiescent /\ ret[MainThread] = "void"
    /\ \E k \in Keys :
          /\ arg[MainThread] = make_optional(k)
          /\ inserted[k] = make_optional(0)
          /\ Cardinality(SlotsHolding(k)) = 1
          /\ \A s \in SlotsHolding(k) : buckets[s[1]][s[2]].payload = 1

\* C9: Cuckoo lookup of the sentinel is a miss in every reachable state.
C9_CuckooLookupSentinelMisses ==
    engine = "cuckoo" => CuckooLookup(Sentinel) = nullopt

\* lookup of the engine the table was built with.
Lookup(key) ==
    CASE engine = "chained" -> ChainedLookup(key)
      [] engine = "probing" -> ProbingLookup(key)
      [] engine = "robinhood" -> RobinhoodLookup(key)
      [] OTHER -> CuckooLookup(key)

\* A step that is a whole call insert(Sentinel, p) of thread t.
InsertsSentinel(t) ==
    \E p \in Payload :
        \/ ChainedInsertBegin(t, Sentinel, p)
        \/ ProbingInsertBegin(t, Sentinel, p)
        \/ RobinhoodInsertBegin(t, Sentinel, p)

\* C8: in Chained, Probing and Robin-Hood, insert(S, v) returns false without
\* taking a lock or changing a slot, and lookup(S) is a miss in every state.
C8_SentinelRejected ==
    [][/\ InsertsSentinel(MainThread)
            => /\ ret'[MainThread] = "false"
               /\ pc'[MainThread] = "idle"
               /\ locks' = locks
               /\ slots' = slots
               /\ buckets' = buckets
       /\ Lookup(Sentinel) = nullopt
       /\ Lookup(Sentinel)' = nullopt]_vars

\* C8 witness: the last insert was handed the sentinel and returned false; the
\* table holds a key and an empty slot, every lock is free, and lookup of the
\* sentinel is a miss.
C8_Witness ==
    /\ Quiescent /\ ret[MainThread] = "false"
    /\ arg[MainThread] = make_optional(Sentinel)
    /\ \E k \in Keys : Lookup(k) # nullopt
    /\ IF engine = "chained" THEN \E i \in 0..(D - 1) : slots[i].key = Sentinel
       ELSE SlotsHolding(Sentinel) # {}
    /\ \A i \in 0..(D - 1) : locks[i] = 0
    /\ Lookup(Sentinel) = nullopt

\* The places of a Chained table that hold key: <<i, 0, 0>> for the inline
\* slot of directory entry i, <<i, b, j>> for slot j of its chain bucket b.
ChainedSlotsHolding(key) ==
    {<<i, 0, 0>> : i \in {n \in 0..(D - 1) : slots[n].key = key}}
    \cup UNION {{<<i, b, j>> : b \in {n \in 1..Len(slots[i].buckets) :
                                        slots[i].buckets[n][j].key = key}} :
                   i \in 0..(D - 1), j \in 0..(BucketSize - 1)}

\* C11: when threads concurrently insert pairwise distinct keys into a Chained
\* table, every insert returns true, and once all have finished lookup of every
\* inserted key is its payload and every inserted key occupies exactly one slot.
C11_ChainedConcurrentBuild ==
    [][(engine = "chained" /\ ~repeated')
          => /\ \A t \in Threads : Returns(t) => ret'[t] = "true"
             /\ Quiescent'
                   => \A k \in Keys :
                         inserted'[k] # nullopt
                            => /\ ChainedLookup(k)' = inserted'[k]
                               /\ Cardinality(ChainedSlotsHolding(k)') = 1]_vars

\* C11 witness: all threads have finished; two of them were last handed keys
\* of the same first-level slot, one of which went to the chain; both returned
\* true and both keys are found.
C11_Witness ==
    /\ engine = "chained" /\ Quiescent /\ ~repeated
    /\ \E t1, t2 \in Threads, k1, k2 \in Keys :
          /\ t1 # t2 /\ k1 # k2
          /\ arg[t1] = make_optional(k1) /\ arg[t2] = make_optional(k2)
          /\ ret[t1] = "true" /\ ret[t2] = "true"
          /\ reductionfn(hashfn(k1)) = reductionfn(hashfn(k2))
          /\ slots[reductionfn(hashfn(k1))].key = k1
          /\ ChainedLookup(k1) = inserted[k1]
          /\ ChainedLookup(k2) = inserted[k2]
          /\ \E s \in ChainedSlotsHolding(k2) : s[2] >= 1

\* C12: when two threads concurrently insert the same not-yet-stored key into a
\* Chained table, exactly one call returns true, the other returns false, and
\* afterwards the key occupies exactly one slot.
C12_ChainedSameKey ==
    (engine = "chained" /\ Quiescent)
        => \A t1, t2 \in Threads, k \in Keys :
              (t1 # t2 /\ arg[t1] = make_optional(k) /\ arg[t2] = make_optional(k))
                 => /\ {ret[t1], ret[t2]} = {"true", "false"}
                    /\ Cardinality(ChainedSlotsHolding(k)) = 1

\* C13: when two threads concurrently insert the same not-yet-stored key into a
\* Probing table, exactly one call returns true, the other returns false, and
\* the key occupies exactly one slot afterwards.
C13_ProbingSameKeyOneWinner ==
    (engine = "probing" /\ Quiescent)
        => \A t1, t2 \in Threads, k \in Keys :
              (t1 # t2 /\ arg[t1] = make_optional(k) /\ arg[t2] = make_optional(k))
                 => /\ {ret[t1], ret[t2]} = {"true", "false"}
                    /\ Cardinality(SlotsHolding(k)) = 1

\* The errors Probing::insert raises.
BuildFailure == {"cycle", "max_probing_steps"}

\* C13 as amended: when two threads concurrently insert the same not-yet-stored
\* key into a Probing table, either both calls raise a build failure and the
\* key is stored nowhere, or exactly one returns true, the other returns false,
\* and the key occupies exactly one slot; the key never occupies two slots.
C13_ProbingSameKeyAtMostOnePlaces ==
    (engine = "probing")
        => /\ \A k \in Keys : Cardinality(SlotsHolding(k)) <= 1
           /\ Quiescent
                 => \A t1, t2 \in Threads, k \in Keys :
                       (t1 # t2 /\ arg[t1] = make_optional(k) /\ arg[t2] = make_optional(k))
                          => \/ /\ ret[t1] \in BuildFailure /\ ret[t2] \in BuildFailure
                                /\ SlotsHolding(k) = {}
                             \/ /\ {ret[t1], ret[t2]} = {"true", "false"}
                                /\ Cardinality(SlotsHolding(k)) = 1

\* C13 witness: two threads were last handed the same key; one call returned
\* true and the other false; the key sits once, away from its home bucket,
\* which holds another key, so that locks were released between probe steps.
C13_Witness ==
    /\ engine = "probing" /\ Quiescent
    /\ \E t1, t2 \in Threads, k \in Keys :
          /\ t1 # t2 /\ arg[t1] = make_optional(k) /\ arg[t2] = make_optional(k)
          /\ ret[t1] = "true" /\ ret[t2] = "false"
          /\ Cardinality(SlotsHolding(k)) = 1
          /\ \A s \in SlotsHolding(k) : s[1] # reductionfn(hashfn(k))

\* C14: when threads concurrently insert pairwise distinct keys into a
\* RobinhoodProbing table and no insert raises, every insert returns true, and
\* once all have finished every inserted key sits in exactly one occupied slot
\* and no other key sits in any: as many occupied slots as inserts.
C14_RobinhoodConcurrentBuild ==
    [][(engine = "robinhood" /\ ~repeated' /\ ~threw')
          => /\ \A t \in Threads : Returns(t) => ret'[t] = "true"
             /\ Quiescent'
                   => \A k \in Keys :
                         /\ Cardinality(SlotsHolding(k)') =
                               IF inserted'[k] # nullopt THEN 1 ELSE 0
                         /\ \A s \in SlotsHolding(k)' :
                               make_optional(buckets'[s[1]][s[2]].payload) = inserted'[k]]_vars

\* C14 witness: all threads have finished and none raised; two of them were
\* last handed different keys, an entry was displaced during the build, and a
\* key sits away from its home bucket.
C14_Witness ==
    /\ engine = "robinhood" /\ Quiescent /\ ~repeated /\ ~threw /\ moved
    /\ \E t1, t2 \in Threads, k1, k2 \in Keys :
          /\ t1 # t2 /\ k1 # k2
          /\ arg[t1] = make_optional(k1) /\ arg[t2] = make_optional(k2)
          /\ ret[t1] = "true" /\ ret[t2] = "true"
          /\ Cardinality(SlotsHolding(k1)) = 1
          /\ \E s \in SlotsHolding(k2) : buckets[s[1]][s[2]].psl >= 1

\* Thread t has asked for the second lock of its round, which thread u holds.
WaitsFor(t, u) == pc[t] = "lock2" /\ locks[locals[t].i2] = u

\* C15: no Cuckoo insert is ever blocked by a lock its own thread holds or by
\* a cycle of threads each waiting for a lock the next one holds, whatever the
\* directory size.
C15_CuckooNoDeadlock ==
    (engine = "cuckoo")
        => ~\E S \in (SUBSET Threads) \ {{}} : \A t \in S : \E u \in S : WaitsFor(t, u)

\* The locks thread t holds.
Held(t) == {i \in 0..(D - 1) : locks[i] = t}

Max(S) == CHOOSE x \in S : \A y \in S : y <= x

\* C16: in every round of Cuckoo insert a thread takes the lock of the lower of
\* its key's two bucket indices first and the lock of the higher one second,
\* never holds another lock, and holds none when it starts the next round after
\* an eviction or has returned.
C16_CuckooLockDiscipline ==
    [][(engine = "cuckoo")
          => \A t \in Threads :
                LET pair == {CuckooI1(locals'[t].key), CuckooI2(locals'[t].key)}
                IN  /\ Cardinality(Held(t)') <= 2
                    /\ pc'[t] \in {"idle", "start"} => Held(t)' = {}
                    /\ pc'[t] \in {"lock2", "cs"} => Held(t)' \subseteq pair
                    /\ \A i \in Held(t)' \ Held(t) :
                          IF Held(t) = {} THEN i = Min(pair)
                          ELSE Held(t) = {Min(pair)} /\ i = Max(pair) /\ Min(pair) < i]_vars

\* C16 witness: in a round after an eviction a thread holds both locks of the
\* evicted key, whose second bucket index is the lower one, and no other lock,
\* after another thread has finished an insert.
C16_Witness ==
    /\ engine = "cuckoo"
    /\ \E t, u \in Threads :
          /\ t # u
          /\ pc[t] = "cs" /\ locals[t].kick_count >= 1
          /\ CuckooI2(locals[t].key) < CuckooI1(locals[t].key)
          /\ Held(t) = {CuckooI1(locals[t].key), CuckooI2(locals[t].key)}
          /\ Cardinality(Held(t)) = 2
          /\ ret[u] = "void"

C18_LinearCycleIffFull ==
    [][(/\ engine = "probing" /\ ProbingFn = "linear" /\ MaxProbingSteps >= D
        /\ Returns(MainThread)
        /\ SlotsHolding(locals[MainThread].key) = {})
          => /\ ret'[MainThread] = "cycle" <=> SlotsHolding(Sentinel) = {}
             /\ SlotsHolding(Sentinel) # {}
                   => /\ ret'[MainThread] = "true"
                      /\ \E i \in 0..(D - 1), j \in 0..(BucketSize - 1) :
                            buckets'[i][j].key = locals[MainThread].key]_vars

\* C18 witness: in a linear-probing table of two or more buckets, all full, the
\* last insert was handed a key that is not stored and raised the cycle error.
C18_Witness ==
    /\ engine = "probing" /\ ProbingFn = "linear" /\ MaxProbingSteps >= D /\ D >= 2
    /\ Quiescent /\ ret[MainThread] = "cycle"
    /\ SlotsHolding(Sentinel) = {}
    /\ \E k \in Keys : arg[MainThread] = make_optional(k) /\ SlotsHolding(k) = {}

\* Bucket i has no empty slot.
Full(i) == \A j \in 0..(BucketSize - 1) : buckets[i][j].key # Sentinel

\* The first step at which the probe sequence of origin O is back at O.
CycleLength(O) == Min({p \in 1..D : probingfn(O, p) = O})

\* C19: whenever Probing insert with quadratic probing raises the cycle error
\* for origin O, every bucket probe(O, p) reachable at any step p >= 0 has no
\* empty slot.
C19_QuadraticCycleAllReachableFull ==
    [][(/\ engine = "probing" /\ ProbingFn = "quadratic"
        /\ Returns(MainThread) /\ ret'[MainThread] = "cycle")
          => \A p \in 0..D : Full(probingfn(locals[MainThread].orig_slot_index, p))]_vars

\* C19 as amended: a sequential Probing insert with quadratic probing of a key
\* that is not stored, with MaxProbingSteps no smaller than the length of the
\* cycle, raises the cycle error if and only if every bucket probe(O, p) before
\* the first step p0 >= 1 with probe(O, p0) = O has no empty slot; the error is
\* raised at step p0.
C19_QuadraticCycleIffCycleFull ==
    [][(/\ engine = "probing" /\ ProbingFn = "quadratic"
        /\ Returns(MainThread)
        /\ SlotsHolding(locals[MainThread].key) = {}
        /\ MaxProbingSteps >= CycleLength(locals[MainThread].orig_slot_index))
          => LET O == locals[MainThread].orig_slot_index
             IN  /\ ret'[MainThread] = "cycle"
                    <=> \A p \in 0..(CycleLength(O) - 1) : Full(probingfn(O, p))
                 /\ ret'[MainThread] = "cycle"
                    => locals[MainThread].probing_step + 1 = CycleLength(O)]_vars

\* C19 witness: the last insert into a quadratic-probing table raised the cycle
\* error for a key that is not stored; the buckets of its cycle are full, and a
\* bucket its probe sequence reaches at a later step has an empty slot.
C19_Witness ==
    /\ engine = "probing" /\ ProbingFn = "quadratic"
    /\ Quiescent /\ ret[MainThread] = "cycle"
    /\ \E k \in AllKeys :
          /\ arg[MainThread] = make_optional(k)
          /\ SlotsHolding(k) = {}
          /\ LET O == reductionfn(hashfn(k))
             IN  /\ \A p \in 0..(CycleLength(O) - 1) : Full(probingfn(O, p))
                 /\ \E p \in 0..D : ~Full(probingfn(O, p))

\* C20: a Cuckoo insert raises the kick-limit error exactly when the kick
\* count of its eviction chain exceeds MaxKickCycleLength, never earlier;
\* has_failed is set when it raises, is set by nothing else, and once set it
\* stays set whatever insert, lookup or clear does afterwards.
C20_CuckooKickLimitSticky ==
    [][(engine = "cuckoo")
          => /\ \A t \in Threads :
                   /\ (Returns(t) /\ ret'[t] = "max_kick_cycle")
                         => /\ pc[t] = "start"
                            /\ locals[t].kick_count > MaxKickCycleLength
                            /\ has_failed'
                   /\ (pc[t] = "start" /\ locals[t].kick_count > MaxKickCycleLength
                          /\ pc'[t] # "start")
                         => /\ Returns(t)
                            /\ ret'[t] = "max_kick_cycle"
                   /\ pc'[t] \in {"lock2", "cs"}
                         => locals'[t].kick_count <= MaxKickCycleLength
             /\ has_failed => has_failed'
             /\ (has_failed' /\ ~has_failed)
                   => \E t \in Threads : Returns(t) /\ ret'[t] = "max_kick_cycle"]_vars

\* C20 witness: an insert has raised and has_failed is set; the table, whose
\* two buckets of the raising call were full then, holds a single key: it was
\* cleared afterwards, and the last insert returned.
C20_Witness ==
    /\ engine = "cuckoo" /\ Quiescent /\ has_failed /\ threw
    /\ ret[MainThread] = "void"
    /\ Cardinality(UNION {SlotsHolding(k) : k \in Keys}) = 1

\* key is stored somewhere in the table, whatever its engine.
Stored(key) ==
    IF engine = "chained" THEN ChainedStored(key) ELSE SlotsHolding(key) # {}

\* No slot of the table is occupied and no first-level slot has a chain.
TableEmpty ==
    IF engine = "chained"
    THEN \A i \in 0..(D - 1) : slots[i].key = Sentinel /\ slots[i].buckets = << >>
    ELSE \A i \in 0..(D - 1), j \in 0..(BucketSize - 1) : buckets[i][j].key = Sentinel

\* A step that is a call of clear().
Clears == ChainedClear \/ ProbingClear \/ RobinhoodClear

\* C21: after clear() on a Chained, Probing or Robin-Hood table in any state
\* reached by sequential inserts, no slot is occupied, no first-level slot has
\* a chain, lookup of every key is a miss, and an insert of any key that was
\* stored before is not kept waiting for a lock and returns true.
C21_ClearEmptiesTable ==
    [][/\ Clears
            => /\ TableEmpty'
               /\ \A k \in AllKeys : Lookup(k)' = nullopt
               /\ \A k \in AllKeys : Stored(k) => locks'[reductionfn(hashfn(k))] = 0
       /\ (engine # "cuckoo" /\ TableEmpty /\ Returns(MainThread))
            => ret'[MainThread] = "true"]_vars

\* The probing steps, before the probe sequence of origin O is back at O, at
\* which it is at bucket i.
StepsReaching(O, i) == {p \in 0..(CycleLength(O) - 1) : probingfn(O, p) = i}

\* C22: in every state of a Probing table reached by sequential or concurrent
\* inserts, every occupied slot's key K sits in a bucket its probe sequence
\* reaches, at a first step P, before it is back at its origin O; the buckets
\* of steps 0..P-1 have no empty slot; and lookup(K) finds K with the payload
\* of that slot.
C22_ProbingOccupancy ==
    (engine = "probing")
        => \A i \in 0..(D - 1), j \in 0..(BucketSize - 1) :
              LET K == buckets[i][j].key
                  O == reductionfn(hashfn(K))
              IN  K # Sentinel
                     => /\ StepsReaching(O, i) # {}
                        /\ \A p \in 0..(Min(StepsReaching(O, i)) - 1) : Full(probingfn(O, p))
                        /\ \A q \in 1..Min(StepsReaching(O, i)) : probingfn(O, q) # O
                        /\ ProbingLookup(K) = make_optional(buckets[i][j].payload)

\* C22 witness: in a table with quadratic probing a thread has an insert in
\* progress, past its home bucket, after another thread's insert returned true;
\* the key of that call sits one or more probing steps away from its origin.
C22_Witness ==
    /\ engine = "probing" /\ ProbingFn = "quadratic"
    /\ \E t, u \in Threads, k \in Keys :
          /\ t # u
          /\ pc[t] # "idle" /\ locals[t].probing_step >= 1
          /\ arg[u] = make_optional(k) /\ ret[u] = "true"
          /\ \E s \in SlotsHolding(k) : s[1] # reductionfn(hashfn(k))

\* The probing steps from origin O at which every slot visited so far is
\* occupied: the steps before the first empty slot and before the sequence is
\* back at O.
StepsBeforeEmpty(O) ==
    {q \in 0..(CycleLength(O) - 1) : \A p \in 0..q : Full(probingfn(O, p))}

\* C23: in every state reached by sequential RobinhoodProbing inserts (linear
\* probe, B = 1), along the probe sequence from any origin O the psl values of
\* the occupied slots visited are non-decreasing until the first empty slot.
C23_RobinhoodPslNonDecreasing ==
    (engine = "robinhood" /\ ProbingFn = "linear" /\ BucketSize = 1 /\ Quiescent)
        => \A O \in 0..(D - 1) :
              \A p, q \in StepsBeforeEmpty(O) :
                 p <= q => buckets[probingfn(O, p)][0].psl <= buckets[probingfn(O, q)][0].psl

\* C23 as amended: in every state reached by sequential RobinhoodProbing
\* inserts (linear probe, B = 1), for every stored key K with recorded psl P,
\* the slots visited at steps 0..P-1 of the probe sequence from K's origin are
\* occupied and the one visited at step p has psl p or more; K's own slot is
\* the one visited at step P.
C23_RobinhoodNoPoorerPassed ==
    (engine = "robinhood" /\ ProbingFn = "linear" /\ BucketSize = 1)
        => \A i \in 0..(D - 1) :
              LET K == buckets[i][0].key
                  P == buckets[i][0].psl
                  O == reductionfn(hashfn(K))
              IN  K # Sentinel
                     => /\ probingfn(O, P) = i
                        /\ \A p \in 0..(P - 1) :
                              /\ Full(probingfn(O, p))
                              /\ buckets[probingfn(O, p)][0].psl >= p

\* C23 witness: after an insert displaced an entry, the psl values along the
\* probe sequence from bucket 0 go down before any empty slot, while a key
\* sits two steps away from its origin behind slots of psl 0 and 1 or more.
C23_Witness ==
    /\ engine = "robinhood" /\ ProbingFn = "linear" /\ BucketSize = 1 /\ Quiescent
    /\ moved
    /\ \E p, q \in StepsBeforeEmpty(0) :
          p < q /\ buckets[probingfn(0, p)][0].psl > buckets[probingfn(0, q)][0].psl
    /\ \E i \in 0..(D - 1) : buckets[i][0].key # Sentinel /\ buckets[i][0].psl >= 2

\* C24: in every state of a Cuckoo table reached by sequential or concurrent
\* inserts, every occupied slot's key K sits in bucket i1(K) or in bucket
\* i2(K), the second index moved off i1 when the two coincide: no eviction
\* leaves a key outside its own two buckets.
C24_CuckooLocality ==
    (engine = "cuckoo")
        => \A i \in 0..(D - 1), j \in 0..(BucketSize - 1) :
              buckets[i][j].key # Sentinel
                 => i \in {CuckooI1(buckets[i][j].key), CuckooI2(buckets[i][j].key)}

\* C24 witness: after another thread's insert has returned, a thread is in a
\* later round of its insert, carrying an evicted entry, while a key whose two
\* hashes reduce to the same bucket sits in the bucket its second index was
\* moved to.
C24_Witness ==
    /\ engine = "cuckoo"
    /\ \E t1, t2 \in Threads :
          /\ t1 # t2
          /\ pc[t1] # "idle" /\ locals[t1].kick_count >= 1
          /\ pc[t2] = "idle" /\ ret[t2] = "void"
    /\ \E k \in Keys :
          /\ reductionfn2(hashfn2(k)) = CuckooI1(k)
          /\ \E s \in SlotsHolding(k) : s[1] = CuckooI2(k) /\ s[1] # CuckooI1(k)

\* The layout of the chain of one first-level slot: in every chain bucket the
\* occupied slots are the lowest-indexed ones and slot 0 is occupied; every
\* bucket but the last is full; a chain hangs off an occupied inline slot only.
ChainLayout(slot) ==
    /\ \A b \in 1..Len(slot.buckets) :
          /\ slot.buckets[b][0].key # Sentinel
          /\ \A j \in 1..(BucketSize - 1) :
                slot.buckets[b][j].key # Sentinel => slot.buckets[b][j - 1].key # Sentinel
          /\ b < Len(slot.buckets)
                => \A j \in 0..(BucketSize - 1) : slot.buckets[b][j].key # Sentinel
    /\ slot.buckets # << >> => slot.key # Sentinel

\* The inline slot and every slot of every chain bucket are occupied.
ChainFull(slot) ==
    /\ slot.key # Sentinel
    /\ \A b \in 1..Len(slot.buckets), j \in 0..(BucketSize - 1) :
          slot.buckets[b][j].key # Sentinel

\* C25: in every state of a Chained table reached by inserts, the occupied
\* slots of each chain bucket are its lowest-indexed ones, slot 0 of every
\* chain bucket is occupied, only the last bucket of a chain has empty slots,
\* and a chain implies an occupied inline slot; an insert allocates a chain
\* bucket, one at a time, only when the inline slot and all slots of all
\* chain buckets of the entry are occupied.
C25_ChainedLayout ==
    [][(engine = "chained")
          => \A i \in 0..(D - 1) :
                /\ ChainLayout(slots[i])
                /\ ChainLayout(slots'[i])
                /\ Len(slots'[i].buckets) # Len(slots[i].buckets)
                      => /\ Len(slots'[i].buckets) = Len(slots[i].buckets) + 1
                         /\ ChainFull(slots[i])]_vars

\* C25 witness: a first-level slot whose chain has two buckets of two slots,
\* the first one full, the second one holding one key and an empty slot.
C25_Witness ==
    /\ engine = "chained" /\ BucketSize = 2 /\ Quiescent
    /\ \E i \in 0..(D - 1) :
          /\ Len(slots[i].buckets) = 2
          /\ slots[i].buckets[1][1].key # Sentinel
          /\ slots[i].buckets[2][0].key # Sentinel
          /\ slots[i].buckets[2][1].key = Sentinel

\* The two bucket indices of every key are different and lie in [0, D), and a
\* thread inside a round of insert works on the pair lookup computes for the
\* key it carries.
CandidatesDistinct ==
    /\ \A k \in AllKeys :
          /\ CuckooI1(k) # CuckooI2(k)
          /\ CuckooI1(k) \in 0..(D - 1)
          /\ CuckooI2(k) \in 0..(D - 1)
    /\ \A t \in Threads :
          pc[t] \in {"lock2", "cs"}
             => {locals[t].i1, locals[t].i2}
                   = {CuckooI1(locals[t].key), CuckooI2(locals[t].key)}

\* C26: for every key and every directory size D >= 1 the two bucket indices
\* Cuckoo insert and lookup use after the i2 adjustment are different, both lie
\* in [0, D), and insert and lookup compute the same unordered pair.
C26_CuckooCandidatesDistinctAnyD ==
    (engine = "cuckoo") => CandidatesDistinct

\* C27: a RobinhoodProbing insert raises the infinite-loop error when, carrying
\* a displaced entry, it meets the key its caller passed as the incumbent of a
\* slot whose psl is lower than the carried entry's probing step; that slot is
\* left as it is and the caller's key is never displaced.  The insert raises
\* in no other situation than this one and the return of the carried entry's
\* probe sequence to its origin after a full bucket.
C27_RobinhoodSelfCycleGuard ==
    [][(engine = "robinhood")
          => \A t \in Threads :
                LET l == locals[t]
                    bucket == buckets[l.slot_index]
                    r == RobinhoodInsertBucket(bucket, 0, l)
                IN  /\ Returns(t)
                          => ret'[t] \in {"true", "false", "infinite_loop", "cycle"}
                    /\ (Returns(t) /\ ret'[t] = "infinite_loop")
                          => /\ r.locals.key # l.orig_key
                             /\ \E j \in 0..(BucketSize - 1) :
                                   /\ bucket[j].key = l.orig_key
                                   /\ bucket[j].psl < r.locals.probing_step
                                   /\ buckets'[l.slot_index][j] = bucket[j]
                    /\ (Returns(t) /\ ret'[t] = "cycle")
                          => /\ \A j \in 0..(BucketSize - 1) :
                                   buckets'[l.slot_index][j].key # Sentinel
                             /\ probingfn(r.locals.orig_slot_index, r.locals.probing_step + 1)
                                   = r.locals.orig_slot_index
                    /\ (pc[t] = "scan" /\ BucketSize = 1)
                          => ((Returns(t) /\ ret'[t] = "infinite_loop")
                                <=> /\ bucket[0].key = l.orig_key
                                    /\ l.key # l.orig_key
                                    /\ bucket[0].psl < l.probing_step)
                    /\ (pc[t] = "scan" /\ pc'[t] = "probe" /\ locals'[t].key = l.orig_key)
                          => l.key = l.orig_key]_vars

\* C27 witness: the last insert raised the infinite-loop error after displacing
\* entries; the key its caller passed is stored in the table.
C27_Witness ==
    /\ engine = "robinhood" /\ Quiescent /\ moved
    /\ ret[MainThread] = "infinite_loop"
    /\ \E k \in AllKeys : arg[MainThread] = make_optional(k) /\ SlotsHolding(k) # {}

\* Thread t holds both locks and its key is in neither bucket: its next step
\* calls the kicking policy, on buckets[i1] as bucket 1 and buckets[i2] as
\* bucket 2.
CallsPolicy(t) ==
    /\ engine = "cuckoo"
    /\ pc[t] = "cs"
    /\ ~CuckooUpdate(buckets[locals[t].i1], buckets[locals[t].i2],
                     locals[t].key, locals[t].payload).found

\* What a policy returns and leaves in the two buckets when it stores the new
\* entry in slot index of bucket 1 (first) or bucket 2 and evicts nothing.
Filled(b1, b2, key, payload, first, index) ==
    [b1 |-> IF first THEN [b1 EXCEPT ![index] = [key |-> key, payload |-> payload]] ELSE b1,
     b2 |-> IF first THEN b2 ELSE [b2 EXCEPT ![index] = [key |-> key, payload |-> payload]],
     kicked |-> nullopt]

\* The same when it hands back the previous occupant of that slot.
Evicted(b1, b2, key, payload, first, index) ==
    [Filled(b1, b2, key, payload, first, index) EXCEPT
        !.kicked = make_optional(IF first THEN b1[index] ELSE b2[index])]

\* The step of thread t leaves in its two buckets what the policy left there
\* and changes no other bucket; it returns when nothing was evicted, goes on
\* with the evicted entry otherwise, or drops it and returns when has_failed
\* is set.
Applies(t, res) ==
    /\ buckets' = [buckets EXCEPT ![locals[t].i1] = res.b1, ![locals[t].i2] = res.b2]
    /\ IF res.kicked = nullopt \/ has_failed
       THEN Returns(t) /\ ret'[t] = "void"
       ELSE /\ pc'[t] = "start"
            /\ locals'[t].key = res.kicked[1].key
            /\ locals'[t].payload = res.kicked[1].payload
            /\ locals'[t].kick_count = locals[t].kick_count + 1

\* The balanced rule with the test c1 <= c2 < B for bucket 1.
BalancedRuleSecondBucketRoom(b1, b2, key, payload, r) ==
    LET c1 == Occupied(b1)
        c2 == Occupied(b2)
    IN  IF c1 <= c2 /\ c2 < BucketSize THEN Filled(b1, b2, key, payload, TRUE, c1)
        ELSE IF c2 < BucketSize THEN Filled(b1, b2, key, payload, FALSE, c2)
        ELSE Evicted(b1, b2, key, payload, r % 2 = 1, r % BucketSize)

\* The balanced rule with the test c1 <= c2 and c1 < B for bucket 1.
BalancedRule(b1, b2, key, payload, r) ==
    LET c1 == Occupied(b1)
        c2 == Occupied(b2)
    IN  IF c1 <= c2 /\ c1 < BucketSize THEN Filled(b1, b2, key, payload, TRUE, c1)
        ELSE IF c2 < BucketSize THEN Filled(b1, b2, key, payload, FALSE, c2)
        ELSE Evicted(b1, b2, key, payload, r % 2 = 1, r % BucketSize)

\* C28: with c1 and c2 the numbers of occupied slots of bucket 1 and bucket 2,
\* BalancedKicking fills bucket 1 at index c1 if c1 <= c2 < B, else fills
\* bucket 2 at index c2 if c2 < B, else draws a word r and evicts the entry at
\* index r mod B of the bucket picked by r & 1; insert acts on that outcome.
C28_BalancedRuleSecondBucketRoom ==
    [][\A t \in Threads :
          (CallsPolicy(t) /\ KickingFn = "balanced")
             => LET l == locals[t]
                    b1 == buckets[l.i1]
                    b2 == buckets[l.i2]
                IN  /\ \A r \in Rng :
                          kickingfn(b1, b2, l.key, l.payload, r)
                             = BalancedRuleSecondBucketRoom(b1, b2, l.key, l.payload, r)
                    /\ \E r \in Rng :
                          Applies(t, BalancedRuleSecondBucketRoom(b1, b2, l.key, l.payload, r))]_vars

\* C28 as amended: BalancedKicking fills bucket 1 at index c1 if c1 <= c2 and
\* c1 < B, else fills bucket 2 at index c2 if c2 < B, else (both buckets are
\* full) draws a word r and evicts the entry at index r mod B of bucket 1 when
\* r is odd and of bucket 2 when r is even; insert acts on that outcome.
C28_BalancedRule ==
    [][\A t \in Threads :
          (CallsPolicy(t) /\ KickingFn = "balanced")
             => LET l == locals[t]
                    b1 == buckets[l.i1]
                    b2 == buckets[l.i2]
                IN  /\ \A r \in Rng :
                          /\ kickingfn(b1, b2, l.key, l.payload, r)
                                = BalancedRule(b1, b2, l.key, l.payload, r)
                          /\ kickingfn(b1, b2, l.key, l.payload, r).kicked # nullopt
                                => Occupied(b1) = BucketSize /\ Occupied(b2) = BucketSize
                    /\ \E r \in Rng : Applies(t, BalancedRule(b1, b2, l.key, l.payload, r))]_vars

\* C28 witness: under the balanced policy the last insert found bucket 2 full
\* and bucket 1 with room: its key sits in bucket 1 and no entry was evicted.
C28_Witness ==
    /\ engine = "cuckoo" /\ KickingFn = "balanced" /\ Quiescent /\ ~moved
    /\ \E k \in AllKeys :
          /\ arg[MainThread] = make_optional(k)
          /\ ret[MainThread] = "void"
          /\ LET o == CuckooOrdered(k)
             IN  /\ \E j \in 0..(BucketSize - 1) : buckets[o.i1][j].key = k
                 /\ Occupied(buckets[o.i2]) = BucketSize

\* The threshold of the biased rule taken as floor(2^w * p / 100), w being the
\* width of the random word.
ThresholdOfPowerOfTwo == ((RngMax + 1) * Bias) \div 100

\* The biased rule with bucket 2 as the victim bucket above the threshold
\* floor(2^w * p / 100).
BiasedRuleSecondAboveThreshold(b1, b2, key, payload, r) ==
    LET c1 == Occupied(b1)
        c2 == Occupied(b2)
    IN  IF c1 < BucketSize THEN Filled(b1, b2, key, payload, TRUE, c1)
        ELSE IF c2 < BucketSize THEN Filled(b1, b2, key, payload, FALSE, c2)
        ELSE Evicted(b1, b2, key, payload, ~(r > ThresholdOfPowerOfTwo), r % BucketSize)

\* The biased rule with bucket 1 as the victim bucket above the threshold
\* floor((2^w - 1) * p / 100).
BiasedRule(b1, b2, key, payload, r) ==
    LET c1 == Occupied(b1)
        c2 == Occupied(b2)
    IN  IF c1 < BucketSize THEN Filled(b1, b2, key, payload, TRUE, c1)
        ELSE IF c2 < BucketSize THEN Filled(b1, b2, key, payload, FALSE, c2)
        ELSE Evicted(b1, b2, key, payload, r > Threshold, r % BucketSize)

\* C29: under BiasedKicking<p>, when both candidate buckets are full the
\* victim bucket is bucket 2 when the random word r is greater than the
\* threshold floor(2^w * p / 100) and bucket 1 otherwise; when a bucket has a
\* free slot nothing is evicted and bucket 1 is filled whenever it has a free
\* slot; insert acts on that outcome.
C29_BiasedRuleSecondAboveThreshold ==
    [][\A t \in Threads :
          (CallsPolicy(t) /\ KickingFn = "biased")
             => LET l == locals[t]
                    b1 == buckets[l.i1]
                    b2 == buckets[l.i2]
                IN  /\ \A r \in Rng :
                          kickingfn(b1, b2, l.key, l.payload, r)
                             = BiasedRuleSecondAboveThreshold(b1, b2, l.key, l.payload, r)
                    /\ \E r \in Rng :
                          Applies(t, BiasedRuleSecondAboveThreshold(b1, b2, l.key, l.payload, r))]_vars

\* C29 as amended: under BiasedKicking<p>, when both candidate buckets are
\* full the victim bucket is bucket 1 when the random word r is greater than
\* the threshold floor((2^w - 1) * p / 100) and bucket 2 otherwise, the victim
\* index being r mod B; when a bucket has a free slot nothing is evicted,
\* bucket 1 is filled at index c1 whenever it has a free slot and bucket 2 at
\* index c2 otherwise; insert acts on that outcome.
C29_BiasedRule ==
    [][\A t \in Threads :
          (CallsPolicy(t) /\ KickingFn = "biased")
             => LET l == locals[t]
                    b1 == buckets[l.i1]
                    b2 == buckets[l.i2]
                IN  /\ \A r \in Rng :
                          /\ kickingfn(b1, b2, l.key, l.payload, r)
                                = BiasedRule(b1, b2, l.key, l.payload, r)
                          /\ kickingfn(b1, b2, l.key, l.payload, r).kicked # nullopt
                                => Occupied(b1) = BucketSize /\ Occupied(b2) = BucketSize
                    /\ \E r \in Rng : Applies(t, BiasedRule(b1, b2, l.key, l.payload, r))]_vars

\* C29 witness: under a bias of 50 % an insert found both its buckets full,
\* drew a word not above the threshold and goes on with the entry it evicted
\* from bucket 2, where the key of the call now sits.
C29_Witness ==
    /\ engine = "cuckoo" /\ KickingFn = "biased" /\ Bias = 50
    /\ pc[MainThread] = "start" /\ locals[MainThread].kick_count = 1
    /\ \E k \in AllKeys :
          /\ arg[MainThread] = make_optional(k)
          /\ locals[MainThread].key # k
          /\ LET o == CuckooOrdered(k)
             IN  /\ o.i1 # o.i2
                 /\ \E j \in 0..(BucketSize - 1) : buckets[o.i2][j].key = k
                 /\ Occupied(buckets[o.i1]) = BucketSize

\* C30: in a Cuckoo table with UnbiasedKicking (BiasedKicking<0>), whenever an
\* insert of key k finds both candidate buckets full, the victim is taken from
\* k's primary bucket reductionfn(hashfn(k)), for every value of the random
\* word, whether the primary index is the lower or the higher of the two.
C30_UnbiasedEvictsFromPrimary ==
    \A t \in Threads :
       (/\ CallsPolicy(t)
        /\ KickingFn = "biased" /\ Bias = 0
        /\ Occupied(buckets[locals[t].i1]) = BucketSize
        /\ Occupied(buckets[locals[t].i2]) = BucketSize)
          => LET l == locals[t]
                 b1 == buckets[l.i1]
                 b2 == buckets[l.i2]
             IN  \A r \in Rng :
                    kickingfn(b1, b2, l.key, l.payload, r)
                       = Evicted(b1, b2, l.key, l.payload,
                                 l.i1 = CuckooI1(l.key), r % BucketSize)

\* C31: at every point of a Probing or Robin-Hood insert the thread holds at
\* most one bucket lock, the lock of the bucket it is scanning: exactly that
\* lock while it scans (Robin-Hood: across all displacements inside the
\* bucket) and none once it has released it to compute the next probe index.
C31_SingleLock ==
    (engine \in {"probing", "robinhood"})
        => \A t \in Threads :
              /\ pc[t] = "scan" => Held(t) = {locals[t].slot_index}
              /\ pc[t] = "probe" => Held(t) = {}

\* C32: whenever an insert call has ended, by returning or by raising a fatal
\* error, the calling thread holds no lock of the table.
C32_NoLockHeldAfterInsert ==
    \A t \in Threads : pc[t] = "idle" => Held(t) = {}

\* C33: in every reachable state of a RobinhoodProbing table (linear or
\* quadratic probe, any B), every occupied slot with key K and recorded psl P
\* lies in the bucket probingfn(reductionfn(hashfn(K)), P), the entry written
\* by a displacement and a displaced entry put back included.
C33_RobinhoodPslConsistent ==
    (engine = "robinhood")
        => \A i \in 0..(D - 1), j \in 0..(BucketSize - 1) :
              buckets[i][j].key # Sentinel
                 => probingfn(reductionfn(hashfn(buckets[i][j].key)), buckets[i][j].psl) = i

\* C33 witness: under the quadratic probe an insert that displaced an entry
\* has returned true; its own key and another key each sit one step or more
\* from their origins.
C33_Witness ==
    /\ engine = "robinhood" /\ ProbingFn = "quadratic"
    /\ moved /\ ~threw
    /\ pc[MainThread] = "idle" /\ ret[MainThread] = "true"
    /\ \E k \in AllKeys, i1, i2 \in 0..(D - 1), j1, j2 \in 0..(BucketSize - 1) :
          /\ arg[MainThread] = make_optional(k)
          /\ buckets[i1][j1].key = k /\ buckets[i1][j1].psl >= 1
          /\ buckets[i2][j2].key \notin {k, Sentinel} /\ buckets[i2][j2].psl >= 1

\* The occupied slots of bucket b are the slots 0 .. c-1, c their number.
OccupiedPrefix(b) ==
    \A j \in 0..(BucketSize - 1) : (b[j].key # Sentinel) <=> (j < Occupied(b))

\* C34: through any sequence of Cuckoo inserts of non-sentinel keys the
\* occupied slots of every bucket are the slots 0 .. c-1, c their number; a
\* slot that goes from empty to occupied is slot c of its bucket; and an
\* occupied slot gets another key only in the step of an insert whose kicking
\* policy hands its previous entry back as the victim.
C34_CuckooNoSilentOverwrite ==
    [][(engine = "cuckoo")
          => /\ \A i \in 0..(D - 1) : OccupiedPrefix(buckets[i]) /\ OccupiedPrefix(buckets'[i])
             /\ \A i \in 0..(D - 1), j \in 0..(BucketSize - 1) :
                   buckets'[i][j].key # buckets[i][j].key
                      => IF buckets[i][j].key = Sentinel
                         THEN j = Occupied(buckets[i])
                         ELSE \E t \in Threads :
                                 /\ CallsPolicy(t)
                                 /\ i \in {locals[t].i1, locals[t].i2}
                                 /\ buckets'[i][j] = [key |-> locals[t].key,
                                                      payload |-> locals[t].payload]
                                 /\ \E r \in Rng :
                                       kickingfn(buckets[locals[t].i1], buckets[locals[t].i2],
                                                 locals[t].key, locals[t].payload, r).kicked
                                          = make_optional(buckets[i][j])
                                 /\ ~has_failed
                                       => /\ pc'[t] = "start"
                                          /\ locals'[t].key = buckets[i][j].key
                                          /\ locals'[t].payload = buckets[i][j].payload]_vars

\* C34 witness: an insert found both its buckets full, wrote its key over a
\* stored entry and goes on with that entry, which is in no slot of the table
\* at that point.
C34_Witness ==
    /\ engine = "cuckoo"
    /\ pc[MainThread] = "start" /\ locals[MainThread].kick_count >= 1
    /\ \A i \in 0..(D - 1), j \in 0..(BucketSize - 1) :
          buckets[i][j].key # locals[MainThread].key
    /\ \E i \in 0..(D - 1) :
          /\ Occupied(buckets[i]) = BucketSize
          /\ \E j \in 0..(BucketSize - 1) : arg[MainThread] = make_optional(buckets[i][j].key)

\* The step ends an insert call of thread t by a fatal error of
\* RobinhoodProbing, the first call of the table's history to raise.
RobinhoodFirstRaise(t) ==
    /\ engine = "robinhood"
    /\ ~threw
    /\ pc[t] # "idle" /\ pc'[t] = "idle"
    /\ ret'[t] \in {"cycle", "infinite_loop"}

\* The keys stored in the table when the insert call thread t is in began:
\* in a sequential history without an error so far, the keys handed to the
\* earlier calls.
StoredBeforeCall(t) ==
    {k \in AllKeys : inserted[k] # nullopt /\ arg[t] # make_optional(k)}

\* The keys that are in no slot after the step.
Absent == {k \in AllKeys : SlotsHolding(k)' = {}}

\* C35: when a sequential RobinhoodProbing insert raises a fatal error (probing
\* cycle or self-cycle), every key that was stored before the call is still
\* stored in exactly one slot and found by lookup with its payload.
C35_RobinhoodFailedInsertKeepsKeys ==
    [][\A t \in Threads :
          RobinhoodFirstRaise(t)
             => \A k \in StoredBeforeCall(t) :
                   /\ Cardinality(SlotsHolding(k)') = 1
                   /\ RobinhoodLookup(k)' = inserted[k]]_vars

\* C35 as amended: when a sequential RobinhoodProbing insert raises a fatal
\* error, exactly one key among the keys stored before the call and the call's
\* own key is in no slot afterwards (the entry the insert was carrying when it
\* raised); every other one of them is stored in exactly one slot and found by
\* lookup with its payload.  After the self-cycle error the call's own key is
\* stored, so the missing key is one that was stored before the call.
C35_RobinhoodFailedInsertDropsCarried ==
    [][\A t \in Threads :
          RobinhoodFirstRaise(t)
             => LET own == arg[t][1]
                    all == StoredBeforeCall(t) \cup {own}
                IN  /\ Cardinality(all \cap Absent) = 1
                    /\ \A k \in all \ Absent :
                          /\ Cardinality(SlotsHolding(k)') = 1
                          /\ RobinhoodLookup(k)' = inserted[k]
                    /\ ret'[t] = "infinite_loop" => own \notin Absent]_vars

\* C35 witness: the first insert call to raise has raised the cycle error
\* under the quadratic probe; its own key is stored and a key handed to an
\* earlier call is in no slot.
C35_Witness ==
    /\ engine = "robinhood" /\ ProbingFn = "quadratic"
    /\ pc[MainThread] = "idle" /\ ret[MainThread] = "cycle" /\ moved
    /\ \E k \in AllKeys : arg[MainThread] = make_optional(k) /\ SlotsHolding(k) # {}
    /\ \E k \in AllKeys : inserted[k] # nullopt /\ SlotsHolding(k) = {}
    /\ Cardinality({k \in AllKeys : inserted[k] # nullopt})
          = 1 + Cardinality({s \in (0..(D - 1)) \X (0..(BucketSize - 1)) :
                               buckets[s[1]][s[2]].key # Sentinel})

\* C36: if a call insert(K, v2) of a Cuckoo table starts after a call
\* insert(K, v1) has returned, then, whatever other threads insert
\* concurrently, after all threads have finished lookup(K) returns v2 and K
\* occupies exactly one slot (stated for builds in which no insert raised).
C36_CuckooLastWriteWins ==
    (engine = "cuckoo" /\ Quiescent /\ repeated /\ ~threw)
        => /\ CuckooLookup(RewrittenKey) = make_optional(1)
           /\ Cardinality(SlotsHolding(RewrittenKey)) = 1

\* C37: every single-threaded insert call on a Chained, Probing or
\* RobinhoodProbing table, whatever inserts came before it, terminates: it
\* returns or raises a fatal error after finitely many steps.
C37_InsertTerminates ==
    (pc[MainThread] # "idle") ~> (pc[MainThread] = "idle")

\* The probing step at which a stored key is found: the first step of its
\* probe sequence that reaches a bucket holding it.
FoundAtStep(key) ==
    Min(UNION {StepsReaching(reductionfn(hashfn(key)), s[1]) : s \in SlotsHolding(key)})

RECURSIVE SumOfSteps(_, _)
SumOfSteps(dataset, n) ==
    IF n > Len(dataset) THEN 0
    ELSE (IF SlotsHolding(dataset[n]) = {} THEN 0 ELSE FoundAtStep(dataset[n]))
            + SumOfSteps(dataset, n + 1)

\* The steps at which the stored keys of the dataset are found.
StepsOf(dataset) ==
    {FoundAtStep(dataset[n]) : n \in {m \in 1..Len(dataset) : SlotsHolding(dataset[m]) # {}}}

\* C38: for a Probing or RobinhoodProbing table and a dataset with a stored
\* key, lookup_statistics reports min_psl equal to the smallest probing step
\* at which a stored key of the dataset is found, max_psl equal to the largest
\* and total_psl equal to the sum of those steps.
C38_ProbingStatistics ==
    (engine \in {"probing", "robinhood"} /\ Quiescent)
        => \A dataset \in Datasets :
              StepsOf(dataset) # {}
                 => /\ lookup_statistics(dataset).min_psl = Min(StepsOf(dataset))
                    /\ lookup_statistics(dataset).max_psl = Max(StepsOf(dataset))
                    /\ lookup_statistics(dataset).total_psl = SumOfSteps(dataset, 1)

====
